---------------------------- MODULE Spec2Model ----------------------------
(***************************************************************************)
(* Model of the request anomaly detector of ml_service                     *)
(* (models/anomaly_detection.py, class AnomalyDetector) and of the         *)
(* endpoints of api/anomaly_detection.py that drive it.                    *)
(*                                                                         *)
(* Strings are tuples of one-character strings, so that the substring      *)
(* tests, the case folding and the f-string interpolation of the code are  *)
(* computed and not assumed.  Scores are IEEE-754 doubles; see Float.      *)
(***************************************************************************)
EXTENDS Integers, Sequences, FiniteSets, TLC

(***************************************************************************)
(* Python floats.  Every score of the detector is a sum of the literals    *)
(* 0.1 .. 0.9, so a double is kept as the pair (t, d) that stands for      *)
(*        t/10 + d * 2^-56 / 10                                            *)
(* t is the value in tenths as written in the source and d the             *)
(* representation error of the double, in tenths of 2^-56.  FRound rounds  *)
(* an exact value to the nearest double (53-bit significand, ties to       *)
(* even), which is what every float literal and every += of the code does. *)
(***************************************************************************)
Pow2Mod5(n) == <<1, 2, 4, 3>>[(n % 4) + 1]

RECURSIVE Log2(_)
Log2(g) == IF g <= 1 THEN 0 ELSE 1 + Log2(g \div 2)

\* 2^-56 * FUlp(x): the spacing of the doubles in the binade of t/10 (+d)
RECURSIVE FUlp(_)
FUlp(x) == IF x < 20 THEN 1 ELSE 2 * FUlp(x \div 2)

\* r is the exact value modulo the spacing w, odd the parity of the double
\* below it: round to nearest, ties to even
FRoundTo(t, d, w, r, odd) ==
    IF r = 0 THEN [t |-> t, d |-> d]
    ELSE IF (2 * r > w) \/ (2 * r = w /\ odd) THEN [t |-> t, d |-> d + (w - r)]
    ELSE [t |-> t, d |-> d - r]

\* g is the spacing in units of 2^-56 and lg its logarithm; 2^56 modulo 10g
\* is 2g * (2^(55-lg) mod 5), and modulo 20g it is 4g * (2^(54-lg) mod 5)
FRoundIn(t, d, g, lg) ==
    FRoundTo(t, d, 10 * g,
             (t * 2 * g * Pow2Mod5(55 - lg) + d) % (10 * g),
             ((t * 4 * g * Pow2Mod5(54 - lg) + d) % (20 * g)) >= 10 * g)

FRoundG(t, d, g) == FRoundIn(t, d, g, Log2(g))

FRoundPos(t, d) == FRoundG(t, d, FUlp(16 * t - (IF d < 0 THEN 1 ELSE 0)))

FNeg(x) == [t |-> -x.t, d |-> -x.d]

FRound(t, d) ==
    IF t = 0 THEN [t |-> 0, d |-> d]
    ELSE IF t > 0 THEN FRoundPos(t, d)
    ELSE FNeg(FRoundPos(-t, -d))

\* the double a decimal literal with t tenths denotes: 0.3 is FLit(3)
FLit(t) == FRound(t, 0)

FAdd(x, y) == FRound(x.t + y.t, x.d + y.d)
FSub(x, y) == FRound(x.t - y.t, x.d - y.d)

FLt(x, y) == x.t < y.t \/ (x.t = y.t /\ x.d < y.d)
FGt(x, y) == FLt(y, x)
FGe(x, y) == ~FLt(x, y)
FLe(x, y) == ~FLt(y, x)

\* min(score, 1.0)
FMin(x, y) == IF FLt(y, x) THEN y ELSE x

\* round(x, 3): the double nearest to x rounded to three decimals
FRound3(x) == FLit(x.t)

(***************************************************************************)
(* Text                                                                    *)
(***************************************************************************)
UpperChars == <<"A","B","C","D","E","F","G","H","I","J","K","L","M","N","O","P","Q","R","S","T","U","V","W","X","Y","Z">>
LowerChars == <<"a","b","c","d","e","f","g","h","i","j","k","l","m","n","o","p","q","r","s","t","u","v","w","x","y","z">>
DigitChars == <<"0","1","2","3","4","5","6","7","8","9">>

\* str.lower() on one character
LowerChar(c) ==
    IF \E i \in 1..Len(UpperChars) : UpperChars[i] = c
    THEN LowerChars[CHOOSE i \in 1..Len(UpperChars) : UpperChars[i] = c]
    ELSE c

\* str.lower()
Lower(s) == [i \in 1..Len(s) |-> LowerChar(s[i])]

\* pat in s
Contains(s, pat) ==
    \E i \in 0..(Len(s) - Len(pat)) : \A j \in 1..Len(pat) : s[i + j] = pat[j]

IsDigit(c) == \E i \in 1..10 : DigitChars[i] = c
DigitVal(c) == (CHOOSE i \in 1..10 : DigitChars[i] = c) - 1

\* str(n) of a non-negative int
RECURSIVE IntStr(_)
IntStr(n) ==
    IF n < 10 THEN <<DigitChars[n + 1]>>
    ELSE Append(IntStr(n \div 10), DigitChars[(n % 10) + 1])

\* str(float(n)) of a non-negative whole number: 1500 prints as 1500.0
FloatStr(n) == IntStr(n) \o <<".","0">>

\* s.split(sep)
RECURSIVE Split(_, _)
Split(s, sep) ==
    IF \E i \in 1..Len(s) : s[i] = sep
    THEN LET i == CHOOSE k \in 1..Len(s) :
                      s[k] = sep /\ \A j \in 1..(k - 1) : s[j] # sep
         IN  <<SubSeq(s, 1, i - 1)>> \o Split(SubSeq(s, i + 1, Len(s)), sep)
    ELSE <<s>>

RECURSIVE DecVal(_)
DecVal(s) ==
    IF Len(s) = 0 THEN 0
    ELSE 10 * DecVal(SubSeq(s, 1, Len(s) - 1)) + DigitVal(s[Len(s)])

(***************************************************************************)
(* ipaddress.ip_address / ip_network, for IPv4 dotted quads                *)
(***************************************************************************)
ValidOctet(o) ==
    /\ Len(o) \in 1..3
    /\ \A i \in 1..Len(o) : IsDigit(o[i])
    /\ (Len(o) > 1 => o[1] # "0")
    /\ DecVal(o) <= 255

\* ipaddress.ip_address(s) does not raise ValueError
ValidIP(s) ==
    LET parts == Split(s, ".")
    IN  Len(parts) = 4 /\ \A i \in 1..4 : ValidOctet(parts[i])

\* the four octets of a valid address
Octets(s) == LET parts == Split(s, ".") IN [i \in 1..4 |-> DecVal(parts[i])]

\* ip_obj in ipaddress.ip_network(net), net = <<octets, prefix length>>
RECURSIVE Pow2(_)
Pow2(n) == IF n = 0 THEN 1 ELSE 2 * Pow2(n - 1)

InNetwork(oct, net) ==
    \A i \in 1..4 :
        LET bits == IF net[2] >= 8 * i THEN 8
                    ELSE IF net[2] <= 8 * (i - 1) THEN 0
                    ELSE net[2] - 8 * (i - 1)
            drop == Pow2(8 - bits)
        IN  oct[i] \div drop = net[1][i] \div drop

\* IPv4Address.is_private: the networks of ipaddress._private_networks
PrivateNetworks ==
    { <<<<0, 0, 0, 0>>, 8>>,       <<<<10, 0, 0, 0>>, 8>>,
      <<<<127, 0, 0, 0>>, 8>>,     <<<<169, 254, 0, 0>>, 16>>,
      <<<<172, 16, 0, 0>>, 12>>,   <<<<192, 0, 0, 0>>, 29>>,
      <<<<192, 0, 0, 170>>, 31>>,  <<<<192, 0, 2, 0>>, 24>>,
      <<<<192, 168, 0, 0>>, 16>>,  <<<<198, 18, 0, 0>>, 15>>,
      <<<<198, 51, 100, 0>>, 24>>, <<<<203, 0, 113, 0>>, 24>>,
      <<<<240, 0, 0, 0>>, 4>>,     <<<<255, 255, 255, 255>>, 32>> }

IsPrivate(oct) == \E net \in PrivateNetworks : InNetwork(oct, net)

(***************************************************************************)
(* Python values of a request record.  A record of the API carries a       *)
(* str, an int, a float or None in each field.                             *)
(***************************************************************************)
PyStr(s)   == [ty |-> "str", v |-> s]
PyInt(n)   == [ty |-> "int", v |-> <<n>>]
PyFloat(n) == [ty |-> "float", v |-> <<n>>]
PyNone     == [ty |-> "NoneType", v |-> <<>>]

IsStr(x)  == x.ty = "str"
IsNum(x)  == x.ty \in {"int", "float"}
NumVal(x) == x.v[1]

\* bool(x)
Truthy(x) ==
    IF x.ty = "NoneType" THEN FALSE
    ELSE IF x.ty = "str" THEN x.v # <<>>
    ELSE NumVal(x) # 0

\* request_data.get(key, default)
Get(dict, key, default) == IF key \in DOMAIN dict THEN dict[key] ELSE default

\* str(x) as an f-string interpolates it
PyFormat(x) ==
    IF x.ty = "str" THEN x.v
    ELSE IF x.ty = "NoneType" THEN <<"N","o","n","e">>
    ELSE IF x.ty = "int" THEN IntStr(NumVal(x))
    ELSE FloatStr(NumVal(x))

\* float(x) raises on None and on a str that is no number
IsNumeral(s) == Len(s) > 0 /\ \A i \in 1..Len(s) : IsDigit(s[i])
FloatRaises(x) ==
    IF x.ty = "NoneType" THEN TRUE
    ELSE IF x.ty = "str" THEN ~IsNumeral(x.v)
    ELSE FALSE
FloatOf(x) == IF x.ty = "str" THEN DecVal(x.v) ELSE NumVal(x)

(***************************************************************************)
(* _load_security_data and _identify_suspicious_patterns                   *)
(***************************************************************************)
WHITELIST_IPS ==
    { <<"1","9","2",".","1","6","8",".","1",".","1">>, <<"1","9","2",".","1","6","8",".","1",".","1","0">>, <<"1","9","2",".","1","6","8",".","1",".","2","0">>,
      <<"1","0",".","0",".","0",".","1">>, <<"1","7","2",".","1","6",".","0",".","1">> }

BLACKLIST_IPS == { <<"1",".","2",".","3",".","4">>, <<"5",".","6",".","7",".","8">>, <<"9",".","1","0",".","1","1",".","1","2">> }

\* suspicious_ranges of _analyze_ip: the CIDR text, its network, its prefix
SUSPICIOUS_RANGES ==
    << [text |-> <<"1",".","2",".","3",".","0","/","2","4">>, net |-> <<<<1, 2, 3, 0>>, 24>>],
       [text |-> <<"5",".","6",".","7",".","0","/","2","4">>, net |-> <<<<5, 6, 7, 0>>, 24>>] >>

SQL_INJECTION_KEYWORDS ==
    << <<"u","n","i","o","n">>, <<"s","e","l","e","c","t">>, <<"d","r","o","p">>, <<"i","n","s","e","r","t">>, <<"u","p","d","a","t","e">>, <<"d","e","l","e","t","e">>,
       <<"o","r"," ","1","=","1">>, <<"o","r"," ","1","=","2">>, <<"-","-">>, <<";","-","-">>, <<"/","*">>, <<"*","/">>, <<"x","p","_">>,
       <<"s","p","_">>, <<"e","x","e","c">>, <<"e","x","e","c","u","t","e">>, <<"c","a","s","t">>, <<"c","o","n","v","e","r","t">> >>

XSS_PATTERNS ==
    << <<"<","s","c","r","i","p","t">>, <<"<","/","s","c","r","i","p","t",">">>, <<"j","a","v","a","s","c","r","i","p","t",":">>, <<"o","n","l","o","a","d","=">>,
       <<"o","n","e","r","r","o","r","=">>, <<"o","n","c","l","i","c","k","=">>, <<"a","l","e","r","t","(">>, <<"d","o","c","u","m","e","n","t",".","c","o","o","k","i","e">> >>

PATH_TRAVERSAL ==
    << <<".",".","/">>, <<".",".","\\">>, <<"/","e","t","c","/","p","a","s","s","w","d">>, <<"/","e","t","c","/","s","h","a","d","o","w">>,
       <<"b","o","o","t",".","i","n","i">>, <<"w","i","n",".","i","n","i">>, <<"s","y","s","t","e","m","3","2">> >>

SUSPICIOUS_USER_AGENTS ==
    << <<"s","q","l","m","a","p">>, <<"n","i","k","t","o">>, <<"n","m","a","p">>, <<"m","a","s","s","c","a","n">>, <<"z","a","p">>,
       <<"b","u","r","p">>, <<"w","3","a","f">>, <<"a","c","u","n","e","t","i","x">>, <<"n","e","s","s","u","s">> >>

ADMIN_PATHS ==
    << <<"/","a","d","m","i","n">>, <<"/","a","d","m","i","n","i","s","t","r","a","t","o","r">>, <<"/","w","p","-","a","d","m","i","n">>, <<"/","p","h","p","m","y","a","d","m","i","n">>,
       <<"/","c","o","n","f","i","g">>, <<"/","b","a","c","k","u","p">>, <<"/","t","e","s","t">>, <<"/","d","e","b","u","g">> >>

\* the dict _identify_suspicious_patterns assigns
SuspiciousPatterns ==
    [ sql_injection_keywords |-> SQL_INJECTION_KEYWORDS,
      xss_patterns |-> XSS_PATTERNS,
      path_traversal |-> PATH_TRAVERSAL,
      suspicious_user_agents |-> SUSPICIOUS_USER_AGENTS,
      admin_paths |-> ADMIN_PATHS ]

\* {}: the value __init__ gives baseline_metrics and suspicious_patterns
EmptyDict == [k \in {} |-> 0]

(***************************************************************************)
(* Detector results.  A detector either returns {'score', 'reasons'} or    *)
(* raises; raised is TRUE when the call raises.                            *)
(***************************************************************************)
FZero == [t |-> 0, d |-> 0]
FOne  == FLit(10)

Detected(score, reasons) ==
    [raised |-> FALSE, score |-> score, reasons |-> reasons]
Raised == [raised |-> TRUE, score |-> FZero, reasons |-> <<>>]

\* the locals score and reasons of a detector
Clean == [score |-> FZero, reasons |-> <<>>]

\* if cond: score += weight; reasons.append(reason)
Hit(acc, cond, weight, reason) ==
    IF cond
    THEN [score |-> FAdd(acc.score, weight),
          reasons |-> Append(acc.reasons, reason)]
    ELSE acc

\* if cond: score -= weight; reasons.append(reason)
HitSub(acc, cond, weight, reason) ==
    IF cond
    THEN [score |-> FSub(acc.score, weight),
          reasons |-> Append(acc.reasons, reason)]
    ELSE acc

\* return {'score': min(score, 1.0), 'reasons': reasons}
Capped(acc) == Detected(FMin(acc.score, FOne), acc.reasons)

(***************************************************************************)
(* _analyze_ip                                                             *)
(***************************************************************************)
\* the for loop over suspicious_ranges, from index i
RECURSIVE IpRanges(_, _, _, _)
IpRanges(ip, oct, i, acc) ==
    IF i > Len(SUSPICIOUS_RANGES) THEN acc
    ELSE IpRanges(ip, oct, i + 1,
            Hit(acc, InNetwork(oct, SUSPICIOUS_RANGES[i].net), FLit(5),
                <<"I","P"," ">> \o ip \o <<" ","i","s"," ","i","n"," ","s","u","s","p","i","c","i","o","u","s"," ","r","a","n","g","e"," ">>
                    \o SUSPICIOUS_RANGES[i].text))

\* IpParsed with every address taken for a private one, to test that C6
\* depends on the score of a public blacklisted address
IpParsedAsPrivate(ip, oct, acc) ==
    IpRanges(ip, oct, 1, [acc EXCEPT !.score = FSub(@, FLit(1))])

\* the try block of _analyze_ip on an address that parses
IpParsed(ip, oct, acc) ==
    IpRanges(ip, oct, 1,
        [acc EXCEPT !.score = IF IsPrivate(oct) THEN FSub(@, FLit(1))
                                                ELSE FAdd(@, FLit(1))])

\* the mutant of IpTry: the except clause passes without a score
IpTryIgnoresInvalid(ip, acc) ==
    IF ValidIP(ip) THEN IpParsed(ip, Octets(ip), acc) ELSE acc

\* lines 465-485: the try and its except ValueError
IpTry(ip, acc) ==
    IF ValidIP(ip) THEN IpParsed(ip, Octets(ip), acc)
    ELSE Hit(acc, TRUE, FLit(3), <<"I","n","v","a","l","i","d"," ","I","P"," ","a","d","d","r","e","s","s"," ","f","o","r","m","a","t",":"," ">> \o ip)

\* the return of _analyze_ip: min(score, 1.0) is the only bound on the score
IpReturn(acc) == Detected(FMin(acc.score, FOne), acc.reasons)

\* IpListed with the whitelist adding 0.2, to test that C7 sees the sign
IpListedAdds(whitelist_ips, blacklist_ips, ip) ==
    Hit(Hit(Clean, ip \in blacklist_ips, FLit(9),
            <<"I","P"," ">> \o ip \o <<" ","i","s"," ","b","l","a","c","k","l","i","s","t","e","d">>),
        ip \in whitelist_ips, FLit(2),
        <<"I","P"," ">> \o ip \o <<" ","i","s"," ","w","h","i","t","e","l","i","s","t","e","d">>)

\* lines 454-462: the blacklist and the whitelist checks
IpListed(whitelist_ips, blacklist_ips, ip) ==
    HitSub(Hit(Clean, ip \in blacklist_ips, FLit(9),
               <<"I","P"," ">> \o ip \o <<" ","i","s"," ","b","l","a","c","k","l","i","s","t","e","d">>),
           ip \in whitelist_ips, FLit(2),
           <<"I","P"," ">> \o ip \o <<" ","i","s"," ","w","h","i","t","e","l","i","s","t","e","d">>)

AnalyzeIp(whitelist_ips, blacklist_ips, ip_address) ==
    IF ~Truthy(ip_address)
    THEN Detected(FLit(1), << <<"M","i","s","s","i","n","g"," ","I","P"," ","a","d","d","r","e","s","s">> >>)
    ELSE IpReturn(IpTry(ip_address.v,
                       IpListed(whitelist_ips, blacklist_ips, ip_address.v)))

(***************************************************************************)
(* _analyze_patterns                                                       *)
(***************************************************************************)
\* the signatures of sigs that occur in text, in the order of the list
Matches(sigs, text) == SelectSeq(sigs, LAMBDA sig : Contains(text, sig))

\* score += weight and one reason for every signature found
RECURSIVE HitEach(_, _, _, _)
HitEach(acc, found, weight, label) ==
    IF found = <<>> THEN acc
    ELSE HitEach(Hit(acc, TRUE, weight, label \o Head(found)),
                 Tail(found), weight, label)

\* the mutant of ScanSignatures: the loop stops at the first signature found
ScanSignaturesOnce(sigs, text, weight, label, acc) ==
    HitEach(acc, SelectSeq(sigs, LAMBDA sig :
                    /\ Contains(text, sig)
                    /\ sig = Head(Matches(sigs, text))),
            weight, label)

\* one for loop of _analyze_patterns: every signature of sigs that occurs in
\* text adds weight and one reason
ScanSignatures(sigs, text, weight, label, acc) ==
    HitEach(acc, Matches(sigs, text), weight, label)

\* the five loops, over the case-folded texts
PatternScan(sp, path, combined_text, user_agent) ==
    ScanSignatures(sp.admin_paths, path, FLit(2),
        <<"A","d","m","i","n"," ","p","a","t","h"," ","a","c","c","e","s","s"," ","d","e","t","e","c","t","e","d",":"," ">>,
    ScanSignatures(sp.suspicious_user_agents, user_agent, FLit(5),
        <<"S","u","s","p","i","c","i","o","u","s"," ","u","s","e","r"," ","a","g","e","n","t"," ","d","e","t","e","c","t","e","d",":"," ">>,
    ScanSignatures(sp.path_traversal, combined_text, FLit(4),
        <<"P","a","t","h"," ","t","r","a","v","e","r","s","a","l"," ","p","a","t","t","e","r","n"," ","d","e","t","e","c","t","e","d",":"," ">>,
    ScanSignatures(sp.xss_patterns, combined_text, FLit(3),
        <<"X","S","S"," ","p","a","t","t","e","r","n"," ","d","e","t","e","c","t","e","d",":"," ">>,
    ScanSignatures(sp.sql_injection_keywords, combined_text, FLit(3),
        <<"S","Q","L"," ","i","n","j","e","c","t","i","o","n"," ","p","a","t","t","e","r","n"," ","d","e","t","e","c","t","e","d",":"," ">>, Clean)))))

\* f"{path} {query_params}".lower()
CombinedText(path, query_params) ==
    Lower(path \o <<" ">> \o PyFormat(query_params))

\* .lower() of a path or user agent that is no str raises, and so does the
\* lookup of a signature set that was never loaded
PatternsRaise(suspicious_patterns, p, ua) ==
    ~IsStr(p) \/ ~IsStr(ua) \/ DOMAIN suspicious_patterns = {}

PatternsOf(suspicious_patterns, p, q, ua) ==
    IF PatternsRaise(suspicious_patterns, p, ua)
    THEN Raised
    ELSE Capped(PatternScan(suspicious_patterns, Lower(p.v),
                            CombinedText(Lower(p.v), q), Lower(ua.v)))

AnalyzePatterns(suspicious_patterns, request_data) ==
    PatternsOf(suspicious_patterns,
               Get(request_data, "path", PyStr(<<>>)),
               Get(request_data, "query_params", PyStr(<<"{","}">>)),
               Get(request_data, "user_agent", PyStr(<<>>)))

(***************************************************************************)
(* Numbers of the baseline: a float that is a whole number, or nan (the    *)
(* sample standard deviation pandas gives a single row).                   *)
(***************************************************************************)
Num(n) == [nan |-> FALSE, n |-> n]
NaN    == [nan |-> TRUE, n |-> 0]

\* the mutant of Beyond: a value that equals the threshold counts
BeyondInclusive(x, avg, std) == ~avg.nan /\ ~std.nan /\ x >= avg.n + 3 * std.n

\* x > avg + 3 * std; every comparison with nan is False
Beyond(x, avg, std) == ~avg.nan /\ ~std.nan /\ x > avg.n + 3 * std.n

(***************************************************************************)
(* _analyze_statistics                                                     *)
(***************************************************************************)
\* the status code rule: +0.2 from 500, else +0.1 for 401 and 403
StatusRule(acc, status_code) ==
    IF status_code >= 500
    THEN Hit(acc, TRUE, FLit(2),
             <<"S","e","r","v","e","r"," ","e","r","r","o","r"," ","s","t","a","t","u","s"," ","c","o","d","e",":"," ">> \o IntStr(status_code))
    ELSE Hit(acc, status_code = 401 \/ status_code = 403, FLit(1),
             <<"A","u","t","h","e","n","t","i","c","a","t","i","o","n","/","a","u","t","h","o","r","i","z","a","t","i","o","n"," ","e","r","r","o","r",":"," ">> \o IntStr(status_code))

StatisticsOf(bm, response_time, request_size, status_code) ==
    StatusRule(
        Hit(Hit(Clean,
                Beyond(response_time,
                       Get(bm, "avg_response_time", Num(200)),
                       Get(bm, "std_response_time", Num(50))),
                FLit(3),
                <<"U","n","u","s","u","a","l","l","y"," ","h","i","g","h"," ","r","e","s","p","o","n","s","e"," ","t","i","m","e",":"," ">>
                    \o FloatStr(response_time) \o <<"m","s">>),
            Beyond(request_size,
                   Get(bm, "avg_request_size", Num(1024)),
                   Get(bm, "std_request_size", Num(200))),
            FLit(2),
            <<"U","n","u","s","u","a","l","l","y"," ","l","a","r","g","e"," ","r","e","q","u","e","s","t"," ","s","i","z","e",":"," ">>
                \o FloatStr(request_size) \o <<" ","b","y","t","e","s">>),
        status_code)

\* float() of the response time or the request size raises, or the
\* comparison of the status code with 500 does
StatisticsRaise(rt, rs, sc) ==
    FloatRaises(rt) \/ FloatRaises(rs) \/ ~IsNum(sc)

StatisticsChecked(bm, rt, rs, sc) ==
    IF StatisticsRaise(rt, rs, sc) THEN Raised
    ELSE Capped(StatisticsOf(bm, FloatOf(rt), FloatOf(rs), NumVal(sc)))

AnalyzeStatistics(baseline_metrics, request_data) ==
    StatisticsChecked(baseline_metrics,
                      Get(request_data, "response_time", PyInt(0)),
                      Get(request_data, "request_size", PyInt(0)),
                      Get(request_data, "status_code", PyInt(200)))

(***************************************************************************)
(* The scaler and the outlier model.  StandardScaler and IsolationForest   *)
(* are library classes; the model keeps of them what the detector          *)
(* depends on: both are fitted on the numerical features of the training   *)
(* window, the forest on the scaled ones, and predict is a fixed function  *)
(* of the fitted state and the scaled point (random_state is fixed).       *)
(* The forest flags a point that lies outside the scaled training range    *)
(* by more than the width of that range in some feature.                   *)
(***************************************************************************)
NUMERICAL_FEATURES ==
    <<"response_time", "request_size", "response_size", "hour">>

RECURSIVE SeqSum(_)
SeqSum(s) == IF s = <<>> THEN 0 ELSE Head(s) + SeqSum(Tail(s))

RECURSIVE SeqMin(_)
SeqMin(s) ==
    IF Len(s) = 1 THEN s[1]
    ELSE LET m == SeqMin(Tail(s)) IN IF s[1] < m THEN s[1] ELSE m

RECURSIVE SeqMax(_)
SeqMax(s) ==
    IF Len(s) = 1 THEN s[1]
    ELSE LET m == SeqMax(Tail(s)) IN IF s[1] > m THEN s[1] ELSE m

Column(rows, f) == [i \in 1..Len(rows) |-> rows[i][f]]

Mean(col) == SeqSum(col) \div Len(col)

\* StandardScaler().fit: the per-feature mean it subtracts
ScalerFit(rows) ==
    [fitted |-> TRUE,
     mean |-> [i \in 1..4 |-> Mean(Column(rows, NUMERICAL_FEATURES[i]))]]

\* scaler.transform of one feature vector
ScalerTransform(scaler, x) == [i \in 1..4 |-> x[i] - scaler.mean[i]]

\* self.isolation_forest = None of __init__
NoForest == [state |-> "None", lo |-> <<>>, hi |-> <<>>]

\* isolation_forest.fit(features_scaled)
ForestFit(scaler, rows) ==
    LET scaled(i) == [k \in 1..Len(rows) |->
                        rows[k][NUMERICAL_FEATURES[i]] - scaler.mean[i]]
    IN  [state |-> "fitted",
         lo |-> [i \in 1..4 |-> SeqMin(scaled(i))],
         hi |-> [i \in 1..4 |-> SeqMax(scaled(i))]]

\* the features of x the forest isolates
ForestOutlying(forest, x) ==
    {i \in 1..4 :
        LET width == forest.hi[i] - forest.lo[i]
        IN  x[i] < forest.lo[i] - width \/ x[i] > forest.hi[i] + width}

\* isolation_forest.predict(x)[0] == -1
ForestIsOutlier(forest, x) == ForestOutlying(forest, x) # {}

\* f'{decision_function(x)[0]:.3f}' of a flagged point
ForestScoreStr(forest, x) ==
    <<"-","0",".">> \o IntStr(Cardinality(ForestOutlying(forest, x))) \o <<"0","0">>

(***************************************************************************)
(* _extract_features on the one-row frame of a request, inside the try of  *)
(* _analyze_with_ml                                                        *)
(***************************************************************************)
\* the frame lookups and conversions of _extract_features that raise
ExtractRaises(request_data) ==
    \/ "timestamp" \notin DOMAIN request_data
    \/ "method" \notin DOMAIN request_data
    \/ "path" \notin DOMAIN request_data
    \/ "status_code" \notin DOMAIN request_data
    \/ ~IsNum(request_data["status_code"])

\* pd.to_numeric(col, errors='coerce').fillna(0) on one cell
ToNumeric(x) ==
    IF IsNum(x) THEN NumVal(x)
    ELSE IF IsStr(x) /\ IsNumeral(x.v) THEN DecVal(x.v)
    ELSE 0

\* the numerical features of a request whose features were extracted
FeatureVector(request_data) ==
    << ToNumeric(Get(request_data, "response_time", PyInt(0))),
       ToNumeric(Get(request_data, "request_size", PyInt(0))),
       ToNumeric(Get(request_data, "response_size", PyInt(0))),
       NumVal(request_data["timestamp"]) >>

(***************************************************************************)
(* _analyze_with_ml: called only when self.isolation_forest is truthy      *)
(***************************************************************************)
MlFallback ==
    Capped(Hit(Clean, TRUE, FLit(1),
               <<"M","L"," ","a","n","a","l","y","s","i","s"," ","f","a","i","l","e","d"," ","-"," ","u","s","i","n","g"," ","f","a","l","l","b","a","c","k"," ","d","e","t","e","c","t","i","o","n">>))

MlScored(isolation_forest, x) ==
    Capped(Hit(Clean, ForestIsOutlier(isolation_forest, x), FLit(4),
               <<"M","L"," ","m","o","d","e","l"," ","d","e","t","e","c","t","e","d"," ","a","n","o","m","a","l","y"," ","(","s","c","o","r","e",":"," ">>
                   \o ForestScoreStr(isolation_forest, x) \o <<")">>))

AnalyzeWithMl(scaler, isolation_forest, request_data) ==
    IF \/ ExtractRaises(request_data)
       \/ request_data["timestamp"].ty # "datetime"
       \/ ~scaler.fitted
    THEN MlFallback
    ELSE MlScored(isolation_forest,
                  ScalerTransform(scaler, FeatureVector(request_data)))

(***************************************************************************)
(* _analyze_behavior; current_hour is datetime.now().hour                  *)
(***************************************************************************)
PUBLIC_AUTH_PATHS == { <<"/","a","p","i","/","a","u","t","h","/","l","o","g","i","n">>, <<"/","a","p","i","/","a","u","t","h","/","r","e","g","i","s","t","e","r">> }

\* the mutant of BehaviorOf: the login and register endpoints are not exempt
BehaviorOfAllProtected(path, user_id, current_hour) ==
    Hit(Hit(Clean, current_hour < 6 \/ current_hour > 22, FLit(1),
            <<"R","e","q","u","e","s","t"," ","o","u","t","s","i","d","e"," ","n","o","r","m","a","l"," ","b","u","s","i","n","e","s","s"," ","h","o","u","r","s">>),
        Contains(path, <<"/","a","p","i","/">>) /\ ~Truthy(user_id),
        FLit(2),
        <<"U","n","a","u","t","h","e","n","t","i","c","a","t","e","d"," ","a","c","c","e","s","s"," ","t","o"," ","p","r","o","t","e","c","t","e","d"," ","e","n","d","p","o","i","n","t">>)

BehaviorOf(path, user_id, current_hour) ==
    Hit(Hit(Clean, current_hour < 6 \/ current_hour > 22, FLit(1),
            <<"R","e","q","u","e","s","t"," ","o","u","t","s","i","d","e"," ","n","o","r","m","a","l"," ","b","u","s","i","n","e","s","s"," ","h","o","u","r","s">>),
        /\ Contains(path, <<"/","a","p","i","/">>)
        /\ ~Truthy(user_id)
        /\ path \notin PUBLIC_AUTH_PATHS,
        FLit(2),
        <<"U","n","a","u","t","h","e","n","t","i","c","a","t","e","d"," ","a","c","c","e","s","s"," ","t","o"," ","p","r","o","t","e","c","t","e","d"," ","e","n","d","p","o","i","n","t">>)

BehaviorChecked(p, user_id, current_hour) ==
    IF ~IsStr(p) THEN Raised
    ELSE Capped(BehaviorOf(p.v, user_id, current_hour))

AnalyzeBehavior(request_data, current_hour) ==
    BehaviorChecked(Get(request_data, "path", PyStr(<<>>)),
                    Get(request_data, "user_id", PyNone), current_hour)

(***************************************************************************)
(* analyze_request, from line 314: fusion, risk level, reasoning,          *)
(* recommendations                                                         *)
(***************************************************************************)
\* risk_thresholds, in the order the dict is iterated
RISK_THRESHOLDS ==
    << <<"critical", FLit(8)>>, <<"high", FLit(6)>>,
       <<"medium", FLit(4)>>, <<"low", FLit(0)>> >>

\* the for loop over risk_thresholds.items(), with risk_level = 'low' before it
RECURSIVE RiskFrom(_, _)
RiskFrom(anomaly_score, i) ==
    IF i > Len(RISK_THRESHOLDS) THEN "low"
    ELSE IF FGe(anomaly_score, RISK_THRESHOLDS[i][2])
         THEN RISK_THRESHOLDS[i][1]
         ELSE RiskFrom(anomaly_score, i + 1)

\* RiskLevel with > for >=, to test that C4 sees the thresholds
RiskLevelStrict(anomaly_score) ==
    IF FGt(anomaly_score, FLit(8)) THEN "critical"
    ELSE IF FGt(anomaly_score, FLit(6)) THEN "high"
    ELSE IF FGt(anomaly_score, FLit(4)) THEN "medium"
    ELSE "low"

RiskLevel(anomaly_score) == RiskFrom(anomaly_score, 1)

\* IsAnomaly with >= for >, to test that C5 sees the strict comparison
IsAnomalyInclusive(anomaly_score) == FGe(anomaly_score, FLit(5))

\* the mutant of IsAnomaly: only a total above 1 is an anomaly
IsAnomalyAboveOne(anomaly_score) == FGt(anomaly_score, FOne)

\* is_anomaly
IsAnomaly(anomaly_score) == FGt(anomaly_score, FLit(5))

\* f'{x:.3f}' of a score
Fmt3f(x) ==
    LET neg == x.t < 0 \/ (x.t = 0 /\ x.d < 0)
        a == IF x.t < 0 THEN -x.t ELSE x.t
    IN  (IF neg THEN <<"-">> ELSE <<>>)
            \o IntStr(a \div 10) \o <<".">> \o IntStr(a % 10) \o <<"0","0">>

\* risk_level.upper()
RiskUpper(risk_level) ==
    CASE risk_level = "critical" -> <<"C","R","I","T","I","C","A","L">>
      [] risk_level = "high" -> <<"H","I","G","H">>
      [] risk_level = "medium" -> <<"M","E","D","I","U","M">>
      [] risk_level = "low" -> <<"L","O","W">>

\* the keys of detailed_analysis, in insertion order
ANALYSIS_ORDER ==
    <<"ip_analysis", "pattern_analysis", "stats_analysis", "ml_analysis",
      "behavior_analysis">>

\* method_explanations
MethodExplanation(key) ==
    CASE key = "ip_analysis" ->
            <<"I","P"," ","a","d","d","r","e","s","s"," ","r","e","p","u","t","a","t","i","o","n"," ","a","n","d"," ","g","e","o","l","o","c","a","t","i","o","n"," ","a","n","a","l","y","s","i","s">>
      [] key = "pattern_analysis" -> <<"K","n","o","w","n"," ","a","t","t","a","c","k"," ","p","a","t","t","e","r","n"," ","r","e","c","o","g","n","i","t","i","o","n">>
      [] key = "stats_analysis" ->
            <<"S","t","a","t","i","s","t","i","c","a","l"," ","d","e","v","i","a","t","i","o","n"," ","f","r","o","m"," ","n","o","r","m","a","l"," ","b","e","h","a","v","i","o","r">>
      [] key = "ml_analysis" -> <<"M","a","c","h","i","n","e"," ","l","e","a","r","n","i","n","g"," ","a","n","o","m","a","l","y"," ","d","e","t","e","c","t","i","o","n">>
      [] key = "behavior_analysis" -> <<"B","e","h","a","v","i","o","r","a","l"," ","p","a","t","t","e","r","n"," ","a","n","a","l","y","s","i","s">>

\* key.replace('_', ' ').title()
KeyChars(key) ==
    CASE key = "ip_analysis" -> <<"i","p","_","a","n","a","l","y","s","i","s">>
      [] key = "pattern_analysis" -> <<"p","a","t","t","e","r","n","_","a","n","a","l","y","s","i","s">>
      [] key = "stats_analysis" -> <<"s","t","a","t","s","_","a","n","a","l","y","s","i","s">>
      [] key = "ml_analysis" -> <<"m","l","_","a","n","a","l","y","s","i","s">>
      [] key = "behavior_analysis" -> <<"b","e","h","a","v","i","o","r","_","a","n","a","l","y","s","i","s">>

UpperChar(c) ==
    IF \E i \in 1..Len(LowerChars) : LowerChars[i] = c
    THEN UpperChars[CHOOSE i \in 1..Len(LowerChars) : LowerChars[i] = c]
    ELSE c

TitleOfKey(key) ==
    LET s == [i \in 1..Len(KeyChars(key)) |->
                IF KeyChars(key)[i] = "_" THEN " " ELSE KeyChars(key)[i]]
    IN  [i \in 1..Len(s) |->
            IF i = 1 \/ s[i - 1] = " " THEN UpperChar(s[i]) ELSE s[i]]

\* max(analysis_contributions.items(), key=score): the first key, in
\* insertion order, whose score no other key exceeds
RECURSIVE MaxFrom(_, _, _)
MaxFrom(detailed_analysis, i, best) ==
    IF i > Len(ANALYSIS_ORDER) THEN best
    ELSE IF FGt(detailed_analysis[ANALYSIS_ORDER[i]].score,
                detailed_analysis[best].score)
         THEN MaxFrom(detailed_analysis, i + 1, ANALYSIS_ORDER[i])
         ELSE MaxFrom(detailed_analysis, i + 1, best)

\* the mutant of PrimaryMethod: of several highest scores the last wins
PrimaryMethodLast(detailed_analysis) ==
    ANALYSIS_ORDER[
        CHOOSE i \in 1..Len(ANALYSIS_ORDER) :
            \A j \in 1..Len(ANALYSIS_ORDER) :
                IF j <= i
                THEN FGe(detailed_analysis[ANALYSIS_ORDER[i]].score,
                         detailed_analysis[ANALYSIS_ORDER[j]].score)
                ELSE FGt(detailed_analysis[ANALYSIS_ORDER[i]].score,
                         detailed_analysis[ANALYSIS_ORDER[j]].score)]

PrimaryMethod(detailed_analysis) ==
    MaxFrom(detailed_analysis, 2, ANALYSIS_ORDER[1])

\* the confidence label
Confidence(anomaly_score, reasons) ==
    IF FGt(anomaly_score, FLit(7)) /\ Len(reasons) >= 3 THEN "High"
    ELSE IF FGt(anomaly_score, FLit(4)) /\ Len(reasons) >= 2 THEN "Medium"
    ELSE "Low"

\* score / anomaly_score * 100 if anomaly_score > 0 else 0; the quotient is
\* kept as the pair of its operands
Percentage(score, anomaly_score) ==
    IF FGt(anomaly_score, FZero)
    THEN [zero |-> FALSE, num |-> score, den |-> anomaly_score]
    ELSE [zero |-> TRUE, num |-> FZero, den |-> FZero]

GenerateComprehensiveReasoning(anomaly_score, reasons, detailed_analysis, risk_level, baseline_metrics) ==
    LET analysis_contributions ==
            [k \in DOMAIN detailed_analysis |->
                [score |-> detailed_analysis[k].score,
                 percentage |->
                    Percentage(detailed_analysis[k].score, anomaly_score),
                 reasons_count |-> Len(detailed_analysis[k].reasons)]]
        primary_method == PrimaryMethod(detailed_analysis)
        triggered ==
            Cardinality({k \in DOMAIN detailed_analysis :
                            FGt(analysis_contributions[k].score, FZero)})
    IN  [explanation |->
            <<"P","r","i","m","a","r","y"," ","d","e","t","e","c","t","i","o","n"," ","v","i","a"," ">> \o MethodExplanation(primary_method)
                \o <<" ","(","s","c","o","r","e",":"," ">>
                \o Fmt3f(analysis_contributions[primary_method].score)
                \o <<")">>,
         confidence |-> Confidence(anomaly_score, reasons),
         factors |->
            << <<"T","o","t","a","l"," ","a","n","o","m","a","l","y"," ","s","c","o","r","e",":"," ">> \o Fmt3f(anomaly_score),
               <<"R","i","s","k"," ","l","e","v","e","l",":"," ">> \o RiskUpper(risk_level),
               <<"D","e","t","e","c","t","i","o","n"," ","m","e","t","h","o","d","s"," ","t","r","i","g","g","e","r","e","d",":"," ">> \o IntStr(triggered),
               <<"P","r","i","m","a","r","y"," ","m","e","t","h","o","d",":"," ">> \o TitleOfKey(primary_method) >>,
         baseline_established |-> baseline_metrics # EmptyDict,
         analysis_breakdown |-> analysis_contributions,
         primary_trigger |-> TitleOfKey(primary_method)]

\* any(needle in reason for reason in reasons)
AnyReasonHas(reasons, needle) ==
    \E i \in 1..Len(reasons) : Contains(reasons[i], needle)

GenerateRecommendations(anomaly_score, reasons) ==
    LET band ==
            IF FGe(anomaly_score, FLit(8))
            THEN << <<"I","M","M","E","D","I","A","T","E"," ","A","C","T","I","O","N",":"," ","B","l","o","c","k"," ","t","h","i","s"," ","I","P"," ","a","d","d","r","e","s","s">>,
                    <<"R","e","v","i","e","w"," ","a","n","d"," ","s","t","r","e","n","g","t","h","e","n"," ","a","u","t","h","e","n","t","i","c","a","t","i","o","n"," ","m","e","c","h","a","n","i","s","m","s">>,
                    <<"I","m","p","l","e","m","e","n","t"," ","a","d","d","i","t","i","o","n","a","l"," ","m","o","n","i","t","o","r","i","n","g"," ","f","o","r"," ","t","h","i","s"," ","r","e","q","u","e","s","t"," ","p","a","t","t","e","r","n">> >>
            ELSE IF FGe(anomaly_score, FLit(6))
            THEN << <<"I","n","c","r","e","a","s","e"," ","m","o","n","i","t","o","r","i","n","g"," ","f","o","r"," ","t","h","i","s"," ","I","P"," ","a","d","d","r","e","s","s">>,
                    <<"C","o","n","s","i","d","e","r"," ","i","m","p","l","e","m","e","n","t","i","n","g"," ","C","A","P","T","C","H","A"," ","f","o","r"," ","s","u","s","p","i","c","i","o","u","s"," ","r","e","q","u","e","s","t","s">>,
                    <<"R","e","v","i","e","w"," ","a","c","c","e","s","s"," ","l","o","g","s"," ","f","o","r"," ","s","i","m","i","l","a","r"," ","p","a","t","t","e","r","n","s">> >>
            ELSE IF FGe(anomaly_score, FLit(4))
            THEN << <<"M","o","n","i","t","o","r"," ","t","h","i","s"," ","r","e","q","u","e","s","t"," ","p","a","t","t","e","r","n">>,
                    <<"C","o","n","s","i","d","e","r"," ","r","a","t","e"," ","l","i","m","i","t","i","n","g"," ","f","o","r"," ","t","h","i","s"," ","I","P">>,
                    <<"R","e","v","i","e","w"," ","s","e","c","u","r","i","t","y"," ","p","o","l","i","c","i","e","s">> >>
            ELSE <<>>
        sql == IF AnyReasonHas(reasons, <<"S","Q","L"," ","i","n","j","e","c","t","i","o","n">>)
               THEN << <<"I","m","p","l","e","m","e","n","t"," ","p","a","r","a","m","e","t","e","r","i","z","e","d"," ","q","u","e","r","i","e","s"," ","a","n","d"," ","i","n","p","u","t"," ","v","a","l","i","d","a","t","i","o","n">> >>
               ELSE <<>>
        xss == IF AnyReasonHas(reasons, <<"X","S","S">>)
               THEN << <<"I","m","p","l","e","m","e","n","t"," ","o","u","t","p","u","t"," ","e","n","c","o","d","i","n","g"," ","a","n","d"," ","C","S","P"," ","h","e","a","d","e","r","s">> >>
               ELSE <<>>
        agent == IF AnyReasonHas(reasons, <<"s","u","s","p","i","c","i","o","u","s"," ","u","s","e","r"," ","a","g","e","n","t">>)
                 THEN << <<"B","l","o","c","k"," ","k","n","o","w","n"," ","a","t","t","a","c","k"," ","t","o","o","l"," ","u","s","e","r"," ","a","g","e","n","t","s">> >>
                 ELSE <<>>
    IN  band \o sql \o xss \o agent

\* what the call of a detector leaves in analyze_request's locals
Fuse(acc, analysis) ==
    [anomaly_score |-> FAdd(acc.anomaly_score, analysis.score),
     anomaly_reasons |-> acc.anomaly_reasons \o analysis.reasons]

\* ReportedScore with the total clamped to 1, to test that C3 sees a clamp
ReportedScoreClamped(anomaly_score) == FMin(FRound3(anomaly_score), FOne)

\* 'anomaly_score': round(anomaly_score, 3)
ReportedScore(anomaly_score) == FRound3(anomaly_score)

\* the call raises and returns nothing
AnalysisRaised == [raised |-> TRUE]

\* the entry detailed_analysis keeps of a detector's return value
Strip(analysis) == [score |-> analysis.score, reasons |-> analysis.reasons]

DetailedAnalysis(ip, pattern, stats, ml, behavior) ==
    [ip_analysis |-> Strip(ip),
     pattern_analysis |-> Strip(pattern),
     stats_analysis |-> Strip(stats),
     ml_analysis |-> Strip(ml),
     behavior_analysis |-> Strip(behavior)]

\* anomaly_score = 0.0; anomaly_reasons = []
NoFindings == [anomaly_score |-> FZero, anomaly_reasons |-> <<>>]

\* the ML result is added inside the if self.isolation_forest block only
FuseMl(acc, has_forest, ml) == IF has_forest THEN Fuse(acc, ml) ELSE acc

\* anomaly_score and anomaly_reasons after the five steps, in their order
Fused(has_forest, ip, pattern, stats, ml, behavior) ==
    Fuse(FuseMl(Fuse(Fuse(Fuse(NoFindings, ip), pattern), stats),
                has_forest, ml),
         behavior)

\* the dict analyze_request returns (lines 377-387); analysis_hour is the
\* hour of analysis_timestamp
AnalyzeReturn(anomaly_score, anomaly_reasons, detailed_analysis, risk_level, baseline_metrics, current_hour) ==
    [raised |-> FALSE,
     anomaly_score |-> ReportedScore(anomaly_score),
     risk_level |-> risk_level,
     is_anomaly |-> IsAnomaly(anomaly_score),
     anomaly_reasons |-> anomaly_reasons,
     recommendations |->
        GenerateRecommendations(anomaly_score, anomaly_reasons),
     analysis_hour |-> current_hour,
     reasoning |->
        GenerateComprehensiveReasoning(anomaly_score, anomaly_reasons,
            detailed_analysis, risk_level, baseline_metrics),
     detailed_analysis |-> detailed_analysis]

\* lines 356-387 on the locals the five steps left
AnalyzeFused(locals, detailed_analysis, baseline_metrics, current_hour) ==
    AnalyzeReturn(locals.anomaly_score, locals.anomaly_reasons,
                  detailed_analysis, RiskLevel(locals.anomaly_score),
                  baseline_metrics, current_hour)

\* step 4: if self.isolation_forest: None is falsy and a fitted ensemble is
\* truthy; without a forest ml_analysis stays {'score': 0.0, 'reasons': []}
MlStep(scaler, isolation_forest, request_data) ==
    IF isolation_forest.state = "None" THEN Detected(FZero, <<>>)
    ELSE AnalyzeWithMl(scaler, isolation_forest, request_data)

\* an exception of a detector leaves analyze_request
AnalyzeDetected(eng, current_hour, ip, pattern, stats, ml, behavior) ==
    IF \/ ip.raised \/ pattern.raised \/ stats.raised
       \/ ml.raised \/ behavior.raised
    THEN AnalysisRaised
    ELSE AnalyzeFused(Fused(eng.isolation_forest.state # "None",
                            ip, pattern, stats, ml, behavior),
                      DetailedAnalysis(ip, pattern, stats, ml, behavior),
                      eng.baseline_metrics, current_hour)

\* The body of analyze_request on a trained engine (lines 314-387).  eng
\* holds the attributes of the detector the body reads.
AnalyzeBody(eng, request_data, current_hour) ==
    AnalyzeDetected(eng, current_hour,
        AnalyzeIp(eng.whitelist_ips, eng.blacklist_ips,
                  Get(request_data, "ip_address", PyStr(<<>>))),
        AnalyzePatterns(eng.suspicious_patterns, request_data),
        AnalyzeStatistics(eng.baseline_metrics, request_data),
        MlStep(eng.scaler, eng.isolation_forest, request_data),
        AnalyzeBehavior(request_data, current_hour))

(***************************************************************************)
(* The historical window: what conn.fetch returns, or the sample data.     *)
(* A row keeps the columns the baseline, the encoders and the training     *)
(* read.                                                                   *)
(***************************************************************************)
Row(rt, rs, resp, hr, sc, m, p) ==
    [response_time |-> rt, request_size |-> rs, response_size |-> resp,
     hour |-> hr, status_code |-> sc, method |-> m, path |-> p]

\* stands for _generate_sample_request_data()
SampleRows ==
    << Row(150, 824, 4120, 9, PyInt(200), <<"G","E","T">>, <<"/","a","p","i","/","p","r","o","d","u","c","t","s">>),
       Row(200, 1024, 5120, 12, PyInt(200), <<"P","O","S","T">>, <<"/","a","p","i","/","o","r","d","e","r","s">>),
       Row(250, 1224, 6120, 15, PyInt(404), <<"G","E","T">>, <<"/","a","p","i","/","u","s","e","r","s">>) >>

\* windows of request_logs the database may hold
WindowBusy ==
    << Row(100, 512, 1000, 10, PyInt(200), <<"G","E","T">>, <<"/","a","p","i","/","p","r","o","d","u","c","t","s">>),
       Row(300, 1024, 2000, 12, PyInt(500), <<"G","E","T">>, <<"/","a","p","i","/","s","e","a","r","c","h">>),
       Row(500, 1536, 3000, 14, PyInt(200), <<"P","U","T">>, <<"/","a","p","i","/","p","r","o","d","u","c","t","s">>) >>

\* every status_code of the window is NULL
WindowNullStatus ==
    << Row(150, 824, 4120, 9, PyNone, <<"G","E","T">>, <<"/","a","p","i","/","p","r","o","d","u","c","t","s">>),
       Row(250, 1224, 6120, 15, PyNone, <<"G","E","T">>, <<"/","a","p","i","/","u","s","e","r","s">>) >>

Windows == {WindowBusy, WindowNullStatus}

RECURSIVE ISqrt(_)
ISqrt(n) ==
    IF n < 2 THEN n
    ELSE LET r == 2 * ISqrt(n \div 4)
         IN  IF (r + 1) * (r + 1) <= n THEN r + 1 ELSE r

\* Series.std(): the sample standard deviation, nan for a single row
Std(col) ==
    IF Len(col) < 2 THEN NaN
    ELSE LET m == Mean(col)
             sq == [i \in 1..Len(col) |-> (col[i] - m) * (col[i] - m)]
         IN  Num(ISqrt(SeqSum(sq) \div (Len(col) - 1)))

\* the dict _build_baseline_patterns assigns to baseline_metrics
BaselineOf(rows) ==
    [avg_response_time |-> Num(Mean(Column(rows, "response_time"))),
     std_response_time |-> Std(Column(rows, "response_time")),
     avg_request_size |-> Num(Mean(Column(rows, "request_size"))),
     std_request_size |-> Std(Column(rows, "request_size")),
     hourly_pattern |-> {rows[i].hour : i \in 1..Len(rows)}]

\* the mutant of FitColumn: the encoder is fitted again on every call
FitColumnAlways(label_encoders, rows, col) ==
    [k \in DOMAIN label_encoders \cup {col} |->
        IF k = col THEN {rows[i][col] : i \in 1..Len(rows)}
        ELSE label_encoders[k]]

\* lines 285-294: a LabelEncoder is created and fitted on the column the
\* first time _extract_features sees it, and only read afterwards
FitColumn(label_encoders, rows, col) ==
    IF col \in DOMAIN label_encoders THEN label_encoders
    ELSE [k \in DOMAIN label_encoders \cup {col} |->
            IF k = col THEN {rows[i][col] : i \in 1..Len(rows)}
            ELSE label_encoders[k]]

\* label_encoders after _extract_features ran on rows
EncodersOf(label_encoders, rows) ==
    FitColumn(FitColumn(label_encoders, rows, "method"), rows, "path")

\* label_encoders after analyze_request ran on request_data: the ML step
\* passes the record to _extract_features, which reaches the encoders when
\* the timestamp could be read
AnalyzeEncoders(eng, request_data) ==
    IF \/ PatternsRaise(eng.suspicious_patterns,
                        Get(request_data, "path", PyStr(<<>>)),
                        Get(request_data, "user_agent", PyStr(<<>>)))
       \/ StatisticsRaise(Get(request_data, "response_time", PyInt(0)),
                          Get(request_data, "request_size", PyInt(0)),
                          Get(request_data, "status_code", PyInt(200)))
       \/ eng.isolation_forest.state = "None"
       \/ Get(request_data, "timestamp", PyNone).ty # "datetime"
       \/ "method" \notin DOMAIN request_data
    THEN eng.label_encoders
    ELSE LET method == FitColumn(eng.label_encoders,
                                 <<[method |-> PyFormat(request_data["method"])]>>,
                                 "method")
         IN  IF "path" \in DOMAIN request_data
             THEN FitColumn(method,
                            <<[path |-> PyFormat(request_data["path"])]>>,
                            "path")
             ELSE method

\* features['status_code'] >= 400 raises on a column that holds only None
TrainExtractRaises(rows) == \A i \in 1..Len(rows) : ~IsNum(rows[i].status_code)

(***************************************************************************)
(* State                                                                   *)
(***************************************************************************)
NumTasks == 2
MaxRuns == 2

TaskIds == 1..NumTasks
\* the hours the wall clock shows while the service runs
Hours == {6, 23}

VARIABLES
    is_trained,          \* AnomalyDetector attributes
    isolation_forest,
    scaler,
    label_encoders,
    baseline_metrics,
    suspicious_patterns,
    whitelist_ips,
    blacklist_ips,
    request_data,
    hour,                \* datetime.now().hour
    tasks,               \* the coroutines of the event loop
    runs,                \* initialize() runs started so far
    stamp,               \* the run that last wrote each part of the state
    completed            \* the runs that reached is_trained = True

vars == <<is_trained, isolation_forest, scaler, label_encoders,
          baseline_metrics, suspicious_patterns, whitelist_ips,
          blacklist_ips, request_data, hour, tasks, runs, stamp, completed>>

engine == <<is_trained, isolation_forest, scaler, label_encoders,
            baseline_metrics, suspicious_patterns, whitelist_ips,
            blacklist_ips, request_data, stamp, completed>>

\* the attributes of the detector, as one record
Engine ==
    [is_trained |-> is_trained, isolation_forest |-> isolation_forest,
     scaler |-> scaler, label_encoders |-> label_encoders,
     baseline_metrics |-> baseline_metrics,
     suspicious_patterns |-> suspicious_patterns,
     whitelist_ips |-> whitelist_ips, blacklist_ips |-> blacklist_ips,
     request_data |-> request_data, stamp |-> stamp, completed |-> completed]

\* AnomalyDetector.__init__; request_data is no attribute yet
NewEngine ==
    [is_trained |-> FALSE, isolation_forest |-> NoForest,
     scaler |-> [fitted |-> FALSE, mean |-> <<>>],
     label_encoders |-> EmptyDict,
     baseline_metrics |-> EmptyDict,
     suspicious_patterns |-> EmptyDict,
     whitelist_ips |-> {}, blacklist_ips |-> {},
     request_data |-> <<>>,
     stamp |-> [lists |-> 0, baseline |-> 0, patterns |-> 0, scaler |-> 0,
                forest |-> 0],
     completed |-> {}]

\* the mutant of InitializeRaised: is_trained is set although the run raised
InitializeRaisedTrained(eng) ==
    [raised |-> TRUE, eng |-> [eng EXCEPT !.is_trained = TRUE]]

\* the except clause of initialize(): the error is logged and raised again,
\* the attributes stay as the steps left them
InitializeRaised(eng) == [raised |-> TRUE, eng |-> eng]

\* initialize() from line 36, after _load_request_logs returned: the steps
\* run without suspending, up to the one that raises or to the end
InitializeTail(eng, run) ==
    LET rows == eng.request_data
        \* _load_security_data
        e1 == [eng EXCEPT !.whitelist_ips = WHITELIST_IPS,
                          !.blacklist_ips = BLACKLIST_IPS,
                          !.stamp.lists = run]
        \* _build_baseline_patterns
        e2 == [e1 EXCEPT !.baseline_metrics = BaselineOf(rows),
                         !.suspicious_patterns = SuspiciousPatterns,
                         !.stamp.baseline = run,
                         !.stamp.patterns = run]
        \* _train_anomaly_models: _extract_features fits the encoders once
        e3 == [e2 EXCEPT !.label_encoders = EncodersOf(e2.label_encoders,
                                                        rows)]
        sc == ScalerFit(rows)
        e4 == [e3 EXCEPT !.scaler = sc,
                         !.isolation_forest = ForestFit(sc, rows),
                         !.stamp.scaler = run,
                         !.stamp.forest = run]
        e5 == [e4 EXCEPT !.is_trained = TRUE,
                         !.completed = eng.completed \cup {run}]
    IN  IF TrainExtractRaises(rows)
        THEN InitializeRaised(e3)
        ELSE [raised |-> FALSE, eng |-> e5]

SetEngine(eng) ==
    /\ is_trained' = eng.is_trained
    /\ isolation_forest' = eng.isolation_forest
    /\ scaler' = eng.scaler
    /\ label_encoders' = eng.label_encoders
    /\ baseline_metrics' = eng.baseline_metrics
    /\ suspicious_patterns' = eng.suspicious_patterns
    /\ whitelist_ips' = eng.whitelist_ips
    /\ blacklist_ips' = eng.blacklist_ips
    /\ request_data' = eng.request_data
    /\ stamp' = eng.stamp
    /\ completed' = eng.completed

SetEngineInit(eng) ==
    /\ is_trained = eng.is_trained
    /\ isolation_forest = eng.isolation_forest
    /\ scaler = eng.scaler
    /\ label_encoders = eng.label_encoders
    /\ baseline_metrics = eng.baseline_metrics
    /\ suspicious_patterns = eng.suspicious_patterns
    /\ whitelist_ips = eng.whitelist_ips
    /\ blacklist_ips = eng.blacklist_ips
    /\ request_data = eng.request_data
    /\ stamp = eng.stamp
    /\ completed = eng.completed

(***************************************************************************)
(* Coroutines.  op is the endpoint that was called, pc the await the       *)
(* coroutine is suspended on.                                              *)
(***************************************************************************)
NoRequest == EmptyDict
NoResult == [raised |-> FALSE, none |-> TRUE]
\* retrain: is_trained when the task's initialize() run began; unreadable:
\* the run could not read the request logs
Idle ==
    [op |-> "idle", pc |-> "idle", run |-> 0, request |-> NoRequest,
     outcome |-> "none", result |-> NoResult, read |-> NewEngine.stamp,
     retrain |-> FALSE, unreadable |-> FALSE]

\* analyze_request returns result, computed from the state stamped read
Returned(task, result, read) ==
    [task EXCEPT !.pc = "done", !.outcome = "returned", !.result = result,
                 !.read = read]

\* the call raised
Failed(task) == [task EXCEPT !.pc = "done", !.outcome = "raised"]

\* lines 314-387 for the task's request, once the engine is trained
Analysed(task, eng) ==
    LET result == AnalyzeBody(eng, task.request, hour)
    IN  IF result.raised THEN Failed(task)
        ELSE Returned(task, result, eng.stamp)

(***************************************************************************)
(* Request records                                                         *)
(***************************************************************************)
\* RequestAnalysisRequest.dict(): the record the API hands analyze_request
ApiRequest(ip, ua, path, query, status, rt, size, uid) ==
    [ip_address |-> ip, user_agent |-> ua, method |-> PyStr(<<"G","E","T">>),
     path |-> path, query_params |-> query, status_code |-> status,
     response_time |-> rt, request_size |-> size,
     response_size |-> PyInt(4096), user_id |-> uid]

\* a record that carries the timestamp field of a request log row
Timestamp(h) == [ty |-> "datetime", v |-> <<h>>]
WithTimestamp(req, h) ==
    [k \in DOMAIN req \cup {"timestamp"} |->
        IF k = "timestamp" THEN Timestamp(h) ELSE req[k]]

IpAddresses ==
    { PyStr(<<>>), PyStr(<<"1",".","2",".","3",".","4">>), PyStr(<<"1","9","2",".","1","6","8",".","1",".","1">>),
      PyStr(<<"1","9","2",".","1","6","8",".","1",".","1","0","0">>), PyStr(<<"8",".","8",".","8",".","8">>), PyStr(<<"l","o","c","a","l","h","o","s","t">>) }

\* further addresses, sent with otherwise fixed fields
ProbeIps ==
    { PyStr(<<"5",".","6",".","7",".","8">>), PyStr(<<"9",".","1","0",".","1","1",".","1","2">>), PyStr(<<"1",".","2",".","3",".","9">>),
      PyStr(<<"1","9","2",".","1","6","8",".","1",".","1","0">>), PyStr(<<"1","9","2",".","1","6","8",".","1",".","2","0">>), PyStr(<<"1","0",".","0",".","0",".","1">>),
      PyStr(<<"1","7","2",".","1","6",".","0",".","1">>), PyStr(<<"2","0","3",".","0",".","1","1","3",".","5">>), PyStr(<<"3","0","0",".","1",".","1",".","1">>),
      PyStr(<<"1",".","2",".","3">>) }

Mozilla == PyStr(<<"M","o","z","i","l","l","a","/","5",".","0">>)
UserAgents == { Mozilla, PyStr(<<"s","q","l","m","a","p","/","1",".","0">>) }

PathProducts == PyStr(<<"/","a","p","i","/","p","r","o","d","u","c","t","s">>)
Paths == { PathProducts, PyStr(<<"/","a","p","i","/","a","u","t","h","/","l","o","g","i","n">>), PyStr(<<"/","a","d","m","i","n","/",".",".","/","x">>) }

QueryNone == PyStr(<<"{","}">>)
QuerySqli == PyStr(<<"{","\"","i","d","\"",":"," ","\"","1","'"," ","O","R"," ","1","=","1","-","-","\"","}">>)
Queries == { QueryNone, QuerySqli, PyStr(<<"{","\"","c","\"",":"," ","\"","<","s","c","r","i","p","t",">","a","l","e","r","t","(","1",")","\"","}">>) }

StatusCodes == { PyInt(200), PyInt(401), PyInt(503) }
ResponseTimes == { PyFloat(200), PyFloat(1500) }
RequestSizes == { PyInt(1024), PyInt(4096) }
UserIds == { PyNone, PyStr(<<"u","s","e","r","_","1","2","3">>) }

\* the records of the API
ApiRequests ==
    { ApiRequest(ip, ua, path, query, status, rt, size, uid) :
        ip \in IpAddresses, ua \in UserAgents, path \in Paths,
        query \in Queries, status \in StatusCodes, rt \in ResponseTimes,
        size \in RequestSizes, uid \in UserIds }

ProbeRequests ==
    { ApiRequest(ip, Mozilla, PathProducts, query, PyInt(200), PyFloat(200),
                 PyInt(1024), PyStr(<<"u","s","e","r","_","1","2","3">>)) :
        ip \in ProbeIps, query \in {QueryNone, QuerySqli} }

\* records with a timestamp, as analyze_request accepts any dict
TimedRequests ==
    { WithTimestamp(r, 3) :
        r \in { a \in ApiRequests \cup ProbeRequests :
                    a.user_agent = Mozilla /\ a.status_code = PyInt(200) } }

\* a record without the keys ks
Without(req, ks) == [k \in DOMAIN req \ ks |-> req[k]]

\* records with missing, null or non-numeric fields
MalformedRequests ==
    LET base == ApiRequest(PyStr(<<"8",".","8",".","8",".","8">>), Mozilla, PathProducts,
                           QueryNone, PyInt(200), PyFloat(200), PyInt(1024),
                           PyStr(<<"u","s","e","r","_","1","2","3">>))
    IN  { [base EXCEPT !.request_size = PyNone],
          [base EXCEPT !.response_time = PyNone],
          [base EXCEPT !.response_time = PyStr(<<"f","a","s","t">>)],
          [base EXCEPT !.response_time = PyStr(<<"1","5","0","0">>)],
          [base EXCEPT !.status_code = PyNone],
          [base EXCEPT !.status_code = PyStr(<<"5","0","3">>)],
          [base EXCEPT !.path = PyNone],
          [base EXCEPT !.user_agent = PyNone],
          [base EXCEPT !.query_params = PyNone],
          Without(base, {"response_time", "request_size", "status_code"}) }

\* records in which signatures occur more than once, or many at a time
PatternRequests ==
    { ApiRequest(PyStr(<<"8",".","8",".","8",".","8">>), ua, path, query, PyInt(200),
                 PyFloat(200), PyInt(1024), PyStr(<<"u","s","e","r","_","1","2","3">>)) :
        ua \in { Mozilla, PyStr(<<"S","Q","L","M","a","p"," ","n","i","k","t","o"," ","s","q","l","m","a","p">>) },
        path \in { PyStr(<<"/",".",".","/",".",".","/","e","t","c","/","p","a","s","s","w","d">>), PyStr(<<"/","A","d","m","i","n","/","a","d","m","i","n","/","t","e","s","t">>) },
        query \in { QueryNone, PyStr(<<"{","\"","q","\"",":"," ","\"","a","-","-"," ","U","N","I","O","N"," ","b","-","-","\"","}">>) } }

\* records at and just above mean + 3 * std of the windows (350 ms and 1624
\* bytes for the sample data, 2560 bytes for the busy window), with status
\* codes on both sides of 401, 403 and 500
ThresholdRequests ==
    { ApiRequest(PyStr(<<"8",".","8",".","8",".","8">>), Mozilla, PathProducts, QueryNone, status,
                 rt, size, PyStr(<<"u","s","e","r","_","1","2","3">>)) :
        status \in { PyInt(400), PyInt(401), PyInt(403), PyInt(499), PyInt(500) },
        rt \in { PyFloat(350), PyFloat(351) },
        size \in { PyInt(1624), PyInt(1625), PyInt(2560), PyInt(2561) } }

\* records whose ip_address is no address but text that the reasons report
EchoRequests ==
    { ApiRequest(ip, Mozilla, PathProducts, QueryNone, PyInt(200),
                 PyFloat(200), PyInt(1024), PyStr(<<"u","s","e","r","_","1","2","3">>)) :
        ip \in { PyStr(<<"X","S","S">>), PyStr(<<"S","Q","L"," ","i","n","j","e","c","t","i","o","n">>),
                 PyStr(<<"s","u","s","p","i","c","i","o","u","s"," ","u","s","e","r"," ","a","g","e","n","t">>) } }

\* the records analysed one at a time
Requests ==
    ApiRequests \cup ProbeRequests \cup TimedRequests \cup MalformedRequests
        \cup PatternRequests \cup ThresholdRequests \cup EchoRequests

\* the records the concurrent callers send
CallerRequests ==
    { ApiRequest(PyStr(<<"1","9","2",".","1","6","8",".","1",".","1">>), Mozilla, PathProducts, QueryNone,
                 PyInt(200), PyFloat(200), PyInt(1024), PyStr(<<"u","s","e","r","_","1","2","3">>)),
      WithTimestamp(
        ApiRequest(PyStr(<<"8",".","8",".","8",".","8">>), PyStr(<<"s","q","l","m","a","p","/","1",".","0">>),
                   PathProducts, QuerySqli, PyInt(503), PyFloat(1500),
                   PyInt(4096), PyNone), 3) }

(***************************************************************************)
(* Actions                                                                 *)
(***************************************************************************)
\* POST /initialize and the startup event call initialize(), which runs to
\* the await of get_db_connection
CallInitialize(t) ==
    /\ tasks[t].op = "idle"
    /\ runs < MaxRuns
    /\ runs' = runs + 1
    /\ tasks' = [tasks EXCEPT ![t] =
                    [Idle EXCEPT !.op = "initialize", !.pc = "acquire",
                                 !.run = runs + 1, !.retrain = is_trained]]
    /\ UNCHANGED <<engine, hour>>

\* POST /analyze: the coroutine of analyze_request is created
CallAnalyze(t, req) ==
    /\ tasks[t].op = "idle"
    /\ tasks' = [tasks EXCEPT ![t] =
                    [Idle EXCEPT !.op = "analyze", !.pc = "called",
                                 !.request = req]]
    /\ UNCHANGED <<engine, hour, runs>>

\* analyze_request on a trained engine: lines 311-387 without suspending
AnalyzeTrained(t) ==
    /\ tasks[t].pc = "called"
    /\ is_trained
    /\ tasks' = [tasks EXCEPT ![t] = Analysed(tasks[t], Engine)]
    /\ label_encoders' = AnalyzeEncoders(Engine, tasks[t].request)
    /\ UNCHANGED <<is_trained, isolation_forest, scaler, baseline_metrics,
                   suspicious_patterns, whitelist_ips, blacklist_ips,
                   request_data, stamp, completed, hour, runs>>

\* analyze_request on an untrained engine: line 312 starts initialize()
AnalyzeUntrained(t) ==
    /\ tasks[t].pc = "called"
    /\ ~is_trained
    /\ runs < MaxRuns
    /\ runs' = runs + 1
    /\ tasks' = [tasks EXCEPT ![t].pc = "acquire", ![t].run = runs + 1]
    /\ UNCHANGED <<engine, hour>>

\* await get_db_connection() returns a connection
AcquireConnection(t) ==
    /\ tasks[t].pc = "acquire"
    /\ tasks' = [tasks EXCEPT ![t].pc = "fetch"]
    /\ UNCHANGED <<engine, hour, runs>>

\* await get_db_connection() raises; line 47 is outside the try, so
\* initialize() raises, and analyze_request with it
AcquireFails(t) ==
    /\ tasks[t].pc = "acquire"
    /\ tasks' = [tasks EXCEPT ![t] =
                    [Failed(tasks[t]) EXCEPT !.unreadable = TRUE]]
    /\ UNCHANGED <<engine, hour, runs>>

\* await conn.fetch returns rows
FetchRows(t, rows) ==
    /\ tasks[t].pc = "fetch"
    /\ request_data' = rows
    /\ tasks' = [tasks EXCEPT ![t].pc = "release"]
    /\ UNCHANGED <<is_trained, isolation_forest, scaler, label_encoders,
                   baseline_metrics, suspicious_patterns, whitelist_ips,
                   blacklist_ips, stamp, completed, hour, runs>>

\* await conn.fetch returns no row: the sample data is generated (line 77)
FetchSample(t) ==
    /\ tasks[t].pc = "fetch"
    /\ request_data' = SampleRows
    /\ tasks' = [tasks EXCEPT ![t].pc = "release"]
    /\ UNCHANGED <<is_trained, isolation_forest, scaler, label_encoders,
                   baseline_metrics, suspicious_patterns, whitelist_ips,
                   blacklist_ips, stamp, completed, hour, runs>>

\* await conn.fetch raises: the except clause of lines 80-83 logs a warning
\* and generates the sample data
FetchFails(t) ==
    /\ tasks[t].pc = "fetch"
    /\ request_data' = SampleRows
    /\ tasks' = [tasks EXCEPT ![t].pc = "release", ![t].unreadable = TRUE]
    /\ UNCHANGED <<is_trained, isolation_forest, scaler, label_encoders,
                   baseline_metrics, suspicious_patterns, whitelist_ips,
                   blacklist_ips, stamp, completed, hour, runs>>

\* await release_db_connection(conn) returns; the rest of initialize() and,
\* for analyze_request, the analysis follow without suspending
ReleaseConnection(t) ==
    /\ tasks[t].pc = "release"
    /\ LET out == InitializeTail(Engine, tasks[t].run)
       IN  /\ SetEngine(IF out.raised \/ tasks[t].op # "analyze"
                        THEN out.eng
                        ELSE [out.eng EXCEPT !.label_encoders =
                                AnalyzeEncoders(out.eng, tasks[t].request)])
           /\ tasks' = [tasks EXCEPT ![t] =
                IF out.raised THEN Failed(tasks[t])
                ELSE IF tasks[t].op = "analyze"
                THEN Analysed(tasks[t], out.eng)
                ELSE Returned(tasks[t], NoResult, out.eng.stamp)]
    /\ UNCHANGED <<hour, runs>>

\* the response is sent
Return(t) ==
    /\ tasks[t].pc = "done"
    /\ tasks' = [tasks EXCEPT ![t] = Idle]
    /\ UNCHANGED <<engine, hour, runs>>

\* the wall clock reaches another hour
Tick ==
    /\ \E h \in Hours \ {hour} : hour' = h
    /\ UNCHANGED <<engine, tasks, runs>>

(***************************************************************************)
(* Spec: the service from its start, with concurrent callers               *)
(***************************************************************************)
Init ==
    /\ SetEngineInit(NewEngine)
    /\ hour \in Hours
    /\ tasks = [t \in TaskIds |-> Idle]
    /\ runs = 0

Next ==
    \/ \E t \in TaskIds : CallInitialize(t)
    \/ \E t \in TaskIds : \E req \in CallerRequests : CallAnalyze(t, req)
    \/ \E t \in TaskIds : AnalyzeTrained(t)
    \/ \E t \in TaskIds : AnalyzeUntrained(t)
    \/ \E t \in TaskIds : AcquireConnection(t)
    \/ \E t \in TaskIds : AcquireFails(t)
    \/ \E t \in TaskIds : \E rows \in Windows : FetchRows(t, rows)
    \/ \E t \in TaskIds : FetchSample(t)
    \/ \E t \in TaskIds : FetchFails(t)
    \/ \E t \in TaskIds : ReleaseConnection(t)
    \/ \E t \in TaskIds : Return(t)
    \/ Tick

Spec == Init /\ [][Next]_vars

(***************************************************************************)
(* SpecAnalyze: one analyze_request call on an engine that initialize()    *)
(* trained, for every record of Requests, every hour and every window      *)
(***************************************************************************)
TrainedOn(rows) ==
    InitializeTail([NewEngine EXCEPT !.request_data = rows], 1).eng

InitAnalyze ==
    /\ \E rows \in {SampleRows, WindowBusy} : SetEngineInit(TrainedOn(rows))
    /\ hour \in Hours
    /\ \E req \in Requests :
            tasks = [t \in TaskIds |->
                        IF t = 1
                        THEN [Idle EXCEPT !.op = "analyze", !.pc = "called",
                                          !.request = req]
                        ELSE Idle]
    /\ runs = 1

NextAnalyze == \E t \in TaskIds : AnalyzeTrained(t)

SpecAnalyze == InitAnalyze /\ [][NextAnalyze]_vars


(***************************************************************************)
(* SpecBehavior: one analyze_request call on a trained engine at the hours *)
(* around the ends of the business day, for records with and without a     *)
(* user on protected, public and non-API paths                             *)
(***************************************************************************)
DayHours == {0, 5, 6, 22, 23}

BehaviorRequests ==
    { ApiRequest(PyStr(<<"8",".","8",".","8",".","8">>), Mozilla, path, QueryNone, PyInt(200),
                 PyFloat(200), PyInt(1024), uid) :
        path \in { PathProducts, PyStr(<<"/","a","p","i","/","a","u","t","h","/","l","o","g","i","n">>),
                   PyStr(<<"/","a","p","i","/","a","u","t","h","/","r","e","g","i","s","t","e","r">>), PyStr(<<"/","a","p","i","/","a","u","t","h","/","l","o","g","i","n","/">>),
                   PyStr(<<"/","l","o","g","i","n">>) },
        uid \in { PyNone, PyStr(<<>>), PyStr(<<"u","s","e","r","_","1","2","3">>) } }

InitBehavior ==
    /\ \E rows \in {SampleRows, WindowBusy} : SetEngineInit(TrainedOn(rows))
    /\ hour \in DayHours
    /\ \E req \in BehaviorRequests :
            tasks = [t \in TaskIds |->
                        IF t = 1
                        THEN [Idle EXCEPT !.op = "analyze", !.pc = "called",
                                          !.request = req]
                        ELSE Idle]
    /\ runs = 1

SpecBehavior == InitBehavior /\ [][NextAnalyze]_vars

(***************************************************************************)
(* POST /analyze/batch (analyze_requests_batch)                            *)
(***************************************************************************)
\* the longest batch that is sent
MaxBatch == 3

\* round(k / n, 3) in thousandths, for 0 <= k <= n and n > 0; no quotient
\* with n <= 4 lies half way between two thousandths
RoundedRate(k, n) == (2000 * k + n) \div (2 * n)

\* the summary of lines 77-79 and 85-90; anomaly_rate in thousandths
BatchSummary(results) ==
    LET total_requests == Len(results)
        anomalous_requests ==
            Cardinality({i \in 1..Len(results) : results[i].is_anomaly})
        high_risk_requests ==
            Cardinality({i \in 1..Len(results) :
                            results[i].risk_level \in {"high", "critical"}})
    IN  [total_requests |-> total_requests,
         anomalous_requests |-> anomalous_requests,
         high_risk_requests |-> high_risk_requests,
         anomaly_rate |->
            IF total_requests > 0
            THEN RoundedRate(anomalous_requests, total_requests)
            ELSE 0]

\* the loop of lines 72-75 from the record after those analysed so far, on
\* a trained engine: an exception of analyze_request ends it
RECURSIVE BatchLoop(_, _, _, _)
RECURSIVE BatchNext(_, _, _, _, _)
BatchLoop(eng, requests, current_hour, results) ==
    IF Len(results) = Len(requests)
    THEN [raised |-> FALSE, results |-> results, eng |-> eng]
    ELSE BatchNext(eng, requests, current_hour, results,
                   AnalyzeBody(eng, requests[Len(results) + 1], current_hour))

BatchNext(eng, requests, current_hour, results, analysis) ==
    IF analysis.raised
    THEN [raised |-> TRUE, results |-> results, eng |-> eng]
    ELSE BatchLoop([eng EXCEPT !.label_encoders =
                        AnalyzeEncoders(eng, requests[Len(results) + 1])],
                   requests, current_hour, Append(results, analysis))

\* what the endpoint returns in "data"
BatchData(results) == [results |-> results, summary |-> BatchSummary(results)]

\* the endpoint on a trained engine: no call of the loop suspends
BatchEnds(task, out) ==
    IF out.raised THEN Failed(task)
    ELSE Returned(task, BatchData(out.results), out.eng.stamp)

AnalyzeBatch(t) ==
    /\ tasks[t].op = "batch"
    /\ tasks[t].pc = "called"
    /\ is_trained
    /\ tasks' = [tasks EXCEPT ![t] =
                    BatchEnds(tasks[t],
                              BatchLoop(Engine, tasks[t].request, hour, <<>>))]
    /\ label_encoders' =
            BatchLoop(Engine, tasks[t].request, hour, <<>>).eng.label_encoders
    /\ UNCHANGED <<is_trained, isolation_forest, scaler, baseline_metrics,
                   suspicious_patterns, whitelist_ips, blacklist_ips,
                   request_data, stamp, completed, hour, runs>>

\* the records that are sent in batches
BatchRequests ==
    { ApiRequest(PyStr(<<"1","9","2",".","1","6","8",".","1",".","1","0","0">>), Mozilla, PathProducts, QueryNone,
                 PyInt(200), PyFloat(200), PyInt(1024), PyStr(<<"u","s","e","r","_","1","2","3">>)),
      ApiRequest(PyStr(<<"8",".","8",".","8",".","8">>), Mozilla, PathProducts, QuerySqli,
                 PyInt(200), PyFloat(200), PyInt(1024), PyStr(<<"u","s","e","r","_","1","2","3">>)),
      ApiRequest(PyStr(<<"8",".","8",".","8",".","8">>), PyStr(<<"s","q","l","m","a","p","/","1",".","0">>), PathProducts,
                 QuerySqli, PyInt(503), PyFloat(1500), PyInt(4096), PyNone),
      ApiRequest(PyStr(<<"8",".","8",".","8",".","8">>), Mozilla, PathProducts, QueryNone,
                 PyInt(200), PyFloat(200), PyNone, PyStr(<<"u","s","e","r","_","1","2","3">>)),
      ApiRequest(PyStr(<<"1","9","2",".","1","6","8",".","1",".","1">>), PyStr(<<"s","q","l","m","a","p","/","1",".","0">>), PathProducts,
                 QueryNone, PyInt(401), PyFloat(200), PyInt(1024), PyNone) }

Batches ==
    UNION { [1..n -> BatchRequests] : n \in 0..MaxBatch }

(***************************************************************************)
(* SpecBatch: one batch call on a trained engine, for every batch of up to *)
(* MaxBatch records                                                        *)
(***************************************************************************)
InitBatch ==
    /\ SetEngineInit(TrainedOn(SampleRows))
    /\ hour \in Hours
    /\ \E batch \in Batches :
            tasks = [t \in TaskIds |->
                        IF t = 1
                        THEN [Idle EXCEPT !.op = "batch", !.pc = "called",
                                          !.request = batch]
                        ELSE Idle]
    /\ runs = 1

NextBatch == \E t \in TaskIds : AnalyzeBatch(t)

SpecBatch == InitBatch /\ [][NextBatch]_vars

(***************************************************************************)
(* SpecBaseline: initialize() runs from the start of the service, over     *)
(* windows that include one of a single row                                *)
(***************************************************************************)
\* request_logs holds one row of the last 30 days
WindowSingle ==
    << Row(400, 2048, 1000, 10, PyInt(200), <<"G","E","T">>, <<"/","a","p","i","/","p","r","o","d","u","c","t","s">>) >>

BaselineWindows == Windows \cup {WindowSingle}

NextBaseline ==
    \/ \E t \in TaskIds : CallInitialize(t)
    \/ \E t \in TaskIds : AcquireConnection(t)
    \/ \E t \in TaskIds : AcquireFails(t)
    \/ \E t \in TaskIds : \E rows \in BaselineWindows : FetchRows(t, rows)
    \/ \E t \in TaskIds : FetchSample(t)
    \/ \E t \in TaskIds : FetchFails(t)
    \/ \E t \in TaskIds : ReleaseConnection(t)
    \/ \E t \in TaskIds : Return(t)

SpecBaseline == Init /\ [][NextBaseline]_vars
(***************************************************************************)
(* Properties                                                              *)
(***************************************************************************)
\* the analyze_request calls that have returned an AnalysisResult
Results ==
    {t \in TaskIds : /\ tasks[t].op = "analyze"
                     /\ tasks[t].pc = "done"
                     /\ tasks[t].outcome = "returned"}

ScoreOf(t, key) == tasks[t].result.detailed_analysis[key].score

\* the scores recorded in detailed_analysis, added as floats in the order of
\* the detectors: the fused total before it is rounded for the report
RECURSIVE SumScores(_, _)
SumScores(detailed_analysis, i) ==
    IF i = 0 THEN FZero
    ELSE FAdd(SumScores(detailed_analysis, i - 1),
              detailed_analysis[ANALYSIS_ORDER[i]].score)

TotalOf(t) == SumScores(tasks[t].result.detailed_analysis, 5)

InUnitRange(x) == FGe(x, FZero) /\ FLe(x, FOne)

\* C1: every one of the five detectors returns a score in [0, 1] for every
\* request record.  The IP detector returns -0.1 for a private address and
\* about -0.3 for a whitelisted one, so the code violates this.
C1_ScoresInUnitRange ==
    \A t \in Results :
        \A i \in 1..Len(ANALYSIS_ORDER) :
            InUnitRange(ScoreOf(t, ANALYSIS_ORDER[i]))

\* C2: the fused anomaly_score analyze_request returns is never negative,
\* and neither is the IP detector's contribution to it.  The code violates
\* this for a whitelisted or private address with no other signal.
C2_TotalNeverNegative ==
    \A t \in Results :
        /\ FGe(tasks[t].result.anomaly_score, FZero)
        /\ FGe(TotalOf(t), FZero)

\* C3 as stated: the returned anomaly_score equals the sum of the five
\* scores recorded in detailed_analysis.
C3_TotalIsExactSum ==
    \A t \in Results : tasks[t].result.anomaly_score = TotalOf(t)

\* C3 as amended: the returned anomaly_score is the sum of the five recorded
\* scores rounded to three decimals; no clamp is applied, so a sum that
\* rounds to more than 1 is returned as that larger value.
C3_TotalIsRoundedSum ==
    \A t \in Results : tasks[t].result.anomaly_score = FRound3(TotalOf(t))

\* a result whose scores sum to more than 1 and whose float sum is not the
\* three-decimal value that is returned
C3_Witness ==
    \E t \in Results :
        /\ FGt(tasks[t].result.anomaly_score, FOne)
        /\ tasks[t].result.anomaly_score # TotalOf(t)

\* the level the descending thresholds of the claim give a total
ExpectedRisk(total) ==
    IF FGe(total, FLit(8)) THEN "critical"
    ELSE IF FGe(total, FLit(6)) THEN "high"
    ELSE IF FGe(total, FLit(4)) THEN "medium"
    ELSE "low"

RiskRank(level) ==
    CASE level = "low" -> 0
      [] level = "medium" -> 1
      [] level = "high" -> 2
      [] level = "critical" -> 3

\* totals constructed synthetically: the tenths from -0.5 to 2.5 and the
\* float sums of two one-digit decimals
SyntheticTotals ==
    {FLit(k) : k \in -5..25}
        \cup {FAdd(FLit(a), FLit(b)) : a \in 0..9, b \in 0..9}

\* C4: risk_level is the level the descending thresholds 0.8, 0.6, 0.4 give
\* the fused total (low for every total below 0.4), and a larger total never
\* gets a lower level.
C4_RiskByThreshold ==
    \A t \in Results :
        /\ tasks[t].result.risk_level = ExpectedRisk(TotalOf(t))
        /\ \A s \in SyntheticTotals :
            /\ FLe(TotalOf(t), s) =>
                RiskRank(RiskLevel(s)) >= RiskRank(tasks[t].result.risk_level)
            /\ FLe(s, TotalOf(t)) =>
                RiskRank(RiskLevel(s)) <= RiskRank(tasks[t].result.risk_level)

\* a total on a threshold: exactly 0.6 is high
C4_Witness ==
    \E t \in Results :
        TotalOf(t) = FLit(6) /\ tasks[t].result.risk_level = "high"

\* C5: is_anomaly is true exactly when the fused total is strictly greater
\* than 0.5.
C5_AnomalyIffAboveHalf ==
    \A t \in Results :
        tasks[t].result.is_anomaly <=> FGt(TotalOf(t), FLit(5))

\* a total of exactly 0.5, which is not an anomaly
C5_Witness ==
    \E t \in Results :
        TotalOf(t) = FLit(5) /\ ~tasks[t].result.is_anomaly

IpOf(t) == tasks[t].request["ip_address"].v

\* C6: a request from a blacklisted address gets a total of at least 0.9 and
\* risk_level critical, whatever its other fields are.
C6_BlacklistedIsCritical ==
    \A t \in Results :
        IpOf(t) \in blacklist_ips =>
            /\ FGe(TotalOf(t), FLit(9))
            /\ FGe(tasks[t].result.anomaly_score, FLit(9))
            /\ tasks[t].result.risk_level = "critical"

\* a blacklisted address with no signal from the pattern, statistical and
\* behavioural detectors
C6_Witness ==
    \E t \in Results :
        /\ IpOf(t) \in blacklist_ips
        /\ ScoreOf(t, "pattern_analysis") = FZero
        /\ ScoreOf(t, "stats_analysis") = FZero
        /\ ScoreOf(t, "behavior_analysis") = FZero
        /\ tasks[t].result.risk_level = "critical"

InSuspiciousRange(ip) ==
    /\ ValidIP(ip)
    /\ \E i \in 1..Len(SUSPICIOUS_RANGES) :
            InNetwork(Octets(ip), SUSPICIOUS_RANGES[i].net)

\* C7: for a whitelisted address that is not blacklisted and in no
\* suspicious range the IP detector's score is at most 0.
C7_WhitelistedNotPositive ==
    \A t \in Results :
        (/\ IpOf(t) \in whitelist_ips
         /\ IpOf(t) \notin blacklist_ips
         /\ ~InSuspiciousRange(IpOf(t)))
            => FLe(ScoreOf(t, "ip_analysis"), FZero)

\* a whitelisted address whose IP score is below 0
C7_Witness ==
    \E t \in Results :
        /\ IpOf(t) \in whitelist_ips
        /\ FLt(ScoreOf(t, "ip_analysis"), FZero)

\* C8: a request for /api/products with the query {"id": "1' OR 1=1--"} has
\* an SQL injection reason from the pattern detector and is_anomaly = true,
\* whatever its other fields are.  The negative IP score of C1 and C2 lets a
\* private or whitelisted address pull the total to 0.5 or below.
C8_SqliIsAnomaly ==
    \A t \in Results :
        (/\ tasks[t].request["path"] = PathProducts
         /\ tasks[t].request["query_params"] = QuerySqli)
            => /\ AnyReasonHas(
                    tasks[t].result.detailed_analysis["pattern_analysis"].reasons,
                    <<"S","Q","L"," ","i","n","j","e","c","t","i","o","n">>)
               /\ tasks[t].result.is_anomaly

\* the fields of a result the claim compares
Verdict(result) ==
    <<result.anomaly_score, result.risk_level, result.is_anomaly,
      result.anomaly_reasons, result.recommendations, result.reasoning>>

\* C9: two analyze_request calls on the same record against the same
\* snapshot return the same score, level, flag, reasons, recommendations
\* and reasoning, whenever they are made.  The behavioural detector reads
\* the wall clock, so the code violates this.
C9_SameRecordSameVerdict ==
    \A t1 \in Results : \A t2 \in Results :
        (/\ tasks[t1].request = tasks[t2].request
         /\ tasks[t1].read = tasks[t2].read)
            => Verdict(tasks[t1].result) = Verdict(tasks[t2].result)

\* the stamp of a state that one run wrote whole
WholeRun(r) ==
    [lists |-> r, baseline |-> r, patterns |-> r, scaler |-> r, forest |-> r]

Initializing ==
    {t \in TaskIds : tasks[t].pc \in {"acquire", "fetch", "release"}}

\* C11: at most one initialize() run is in progress at any time, whether
\* the endpoint or a lazy analyze_request started it.  initialize() takes
\* no lock, so the code violates this.
C11_OneRetrainAtATime == Cardinality(Initializing) <= 1

\* the parts of the engine state analyze_request reads
Serving ==
    <<baseline_metrics, suspicious_patterns, whitelist_ips, blacklist_ips,
      scaler, isolation_forest>>

\* task t leaves initialize() by the exception of line 43 in this step
InitializeRaises(t) ==
    /\ t \in Initializing
    /\ tasks'[t].pc = "done"
    /\ tasks'[t].outcome = "raised"

RunCompletes(t) ==
    /\ tasks[t].pc = "release"
    /\ stamp' = WholeRun(tasks[t].run)

\* task t's initialize() run ends in this step without having trained
RunRaises(t) ==
    /\ InitializeRaises(t)
    /\ stamp'.forest # tasks[t].run

\* C13: is_trained changes only from false to true, and only in the last
\* step of an initialize() run that completed without error; a run that
\* raises leaves is_trained as it was.
C13_TrainedOnlyBySuccess ==
    [][/\ (is_trained' # is_trained)
            => /\ ~is_trained
               /\ is_trained'
               /\ \E t \in TaskIds : RunCompletes(t)
       /\ \A t \in TaskIds : RunRaises(t) => (is_trained' = is_trained)]_vars

\* a first initialize() run got as far as the baseline, raised in
\* _train_anomaly_models, and the engine is still untrained
C13_Witness ==
    \E t \in TaskIds :
        /\ tasks[t].op = "initialize"
        /\ tasks[t].outcome = "raised"
        /\ stamp.baseline = tasks[t].run
        /\ ~is_trained

\* C14: an initialize() run that could not read the request logs (the
\* connection could not be acquired, or the query failed) raises to its
\* caller and does not set is_trained.  A failing query is caught at line
\* 80 and replaced by generated sample data, so the code violates this.
C14_UnreadableSourceRaises ==
    \A t \in TaskIds :
        (tasks[t].unreadable /\ tasks[t].pc = "done")
            => /\ tasks[t].outcome = "raised"
               /\ tasks[t].run \notin completed

\* the analyze_request calls that have ended
Ended ==
    {t \in TaskIds : tasks[t].op = "analyze" /\ tasks[t].pc = "done"}

\* C15: analyze_request returns an AnalysisResult for every request record
\* and never raises, whatever is missing, null or non-numeric in it.  The
\* detectors call float() and .lower() on the fields outside any try, so
\* the code violates this.
C15_AnalyzeNeverRaises ==
    \A t \in Ended : tasks[t].outcome = "returned"

\* the result the claim gives the ML detector without an outlier model
IsMlFallback(analysis) ==
    /\ analysis.score = FLit(1)
    /\ Len(analysis.reasons) = 1

\* C16: an analyze_request call that runs while isolation_forest is unset
\* completes, with an ML result of score 0.1 and one fallback reason.  On
\* an engine without a model analyze_request first runs initialize(), and
\* when that raises the call raises with it, so the code violates this.
C16_UnsetForestFallsBack ==
    \A t \in Ended :
        (isolation_forest.state = "None")
            => /\ tasks[t].outcome = "returned"
               /\ IsMlFallback(tasks[t].result.detailed_analysis["ml_analysis"])

\* the attributes of the detector
Attributes ==
    <<is_trained, baseline_metrics, suspicious_patterns, whitelist_ips,
      blacklist_ips, scaler, label_encoders, isolation_forest>>

\* task t runs lines 314-387 on the trained engine in this step
AnalyzesTrained(t) ==
    /\ is_trained
    /\ tasks[t].pc = "called"
    /\ tasks'[t].pc = "done"

\* C17: an analyze_request call on a trained engine leaves is_trained,
\* baseline, signature sets, IP lists, scaler, label encoders and outlier
\* model as they were.
C17_AnalyzeLeavesEngine ==
    [][(\E t \in TaskIds : AnalyzesTrained(t)) => UNCHANGED Attributes]_vars

\* a record with a timestamp went through _extract_features and the ML
\* model on a trained engine
C17_Witness ==
    \E t \in Results :
        /\ "timestamp" \in DOMAIN tasks[t].request
        /\ tasks[t].run = 0
        /\ ~IsMlFallback(tasks[t].result.detailed_analysis["ml_analysis"])

\* C18: analyze_request never loads data, in any engine state: request logs
\* are read only by an initialize() that was called as an administrative
\* operation.  On an untrained engine analyze_request awaits initialize()
\* itself, so the code violates this.
C18_AnalyzeNeverLoads ==
    \A t \in Initializing : tasks[t].op = "initialize"

\* detector i has the highest score and every detector before it a lower one
FirstHighest(detailed_analysis, i) ==
    /\ \A j \in 1..Len(ANALYSIS_ORDER) :
            FGe(detailed_analysis[ANALYSIS_ORDER[i]].score,
                detailed_analysis[ANALYSIS_ORDER[j]].score)
    /\ \A j \in 1..(i - 1) :
            FGt(detailed_analysis[ANALYSIS_ORDER[i]].score,
                detailed_analysis[ANALYSIS_ORDER[j]].score)

\* the report names detector key as its primary trigger, with the score
\* detailed_analysis holds for it
NamesPrimary(reasoning, detailed_analysis, key) ==
    /\ reasoning.primary_trigger = TitleOfKey(key)
    /\ reasoning.factors[4] = <<"P","r","i","m","a","r","y"," ","m","e","t","h","o","d",":"," ">> \o TitleOfKey(key)
    /\ reasoning.analysis_breakdown[key].score = detailed_analysis[key].score
    /\ reasoning.explanation =
            <<"P","r","i","m","a","r","y"," ","d","e","t","e","c","t","i","o","n"," ","v","i","a"," ">> \o MethodExplanation(key)
                \o <<" ","(","s","c","o","r","e",":"," ">> \o Fmt3f(detailed_analysis[key].score)
                \o <<")">>

\* C19: the reasoning report names as primary trigger the detector with the
\* numerically highest score, the earliest in the order IP, pattern,
\* statistical, ML, behavioural among several highest; the score it reports
\* for that detector is the one fusion added, and the total it reports is
\* the fused total (both printed with three decimals in the texts).
C19_PrimaryIsFirstHighest ==
    \A t \in Results :
        /\ \E i \in 1..Len(ANALYSIS_ORDER) :
                /\ FirstHighest(tasks[t].result.detailed_analysis, i)
                /\ NamesPrimary(tasks[t].result.reasoning,
                                tasks[t].result.detailed_analysis,
                                ANALYSIS_ORDER[i])
        /\ tasks[t].result.reasoning.factors[1] =
                <<"T","o","t","a","l"," ","a","n","o","m","a","l","y"," ","s","c","o","r","e",":"," ">> \o Fmt3f(TotalOf(t))

\* the statistical and the ML detector tie for the highest score and the
\* statistical one, the earlier of the two, is named
C19_Witness ==
    \E t \in Results :
        /\ ScoreOf(t, "stats_analysis") = ScoreOf(t, "ml_analysis")
        /\ FirstHighest(tasks[t].result.detailed_analysis, 3)
        /\ tasks[t].result.reasoning.primary_trigger = <<"S","t","a","t","s"," ","A","n","a","l","y","s","i","s">>

\* the batch calls that have ended
Batched == {t \in TaskIds : tasks[t].op = "batch" /\ tasks[t].pc = "done"}

\* the summary the claim gives the results; anomaly_rate in thousandths
SummaryMatches(summary, results) ==
    LET n == Len(results)
        k == Cardinality({i \in 1..n : results[i].is_anomaly})
    IN  /\ summary.total_requests = n
        /\ summary.anomalous_requests = k
        /\ summary.high_risk_requests =
                Cardinality({i \in 1..n :
                    results[i].risk_level \in {"high", "critical"}})
        /\ summary.anomaly_rate =
                IF n = 0 THEN 0 ELSE (2000 * k + n) \div (2 * n)

\* C20: for a batch of N records the batch operation returns N results,
\* the i-th being the analysis of the i-th record, and a summary with
\* total_requests = N, the counts of anomalous and of high or critical
\* results, and anomaly_rate = round(anomalous / N, 3), 0 for N = 0.  One
\* record that makes analyze_request raise (C15) fails the whole batch, so
\* the code violates this.
C20_BatchReturnsAll ==
    \A t \in Batched :
        /\ tasks[t].outcome = "returned"
        /\ Len(tasks[t].result.results) = Len(tasks[t].request)
        /\ \A i \in 1..Len(tasks[t].request) :
                tasks[t].result.results[i] =
                    AnalyzeBody(Engine, tasks[t].request[i], hour)
        /\ SummaryMatches(tasks[t].result.summary, tasks[t].result.results)


(***************************************************************************)
(* Properties of the baseline and of the detectors                         *)
(***************************************************************************)
\* task t runs _build_baseline_patterns in this step, on a window of fewer
\* than 2 rows
BuildsFromFew(t) ==
    /\ tasks[t].pc = "release"
    /\ Len(request_data) < 2
    /\ stamp'.baseline = tasks[t].run

\* C21: a baseline built from a window with fewer than 2 records holds the
\* fallback standard deviations 50 (response time) and 200 (request size).
\* Series.std() of one row is nan and is stored as it is, so the code
\* violates this.
C21_FewRecordsFallbackStd ==
    [][(\E t \in TaskIds : BuildsFromFew(t))
            => /\ baseline_metrics'["std_response_time"] = Num(50)
               /\ baseline_metrics'["std_request_size"] = Num(200)]_vars

\* the five signature categories in the order of the claim: the signatures,
\* the case-folded text they are looked for in, the weight in tenths and
\* the text a reason begins with
Categories(request) ==
    LET path == Lower(request["path"].v)
        combined_text == CombinedText(path, request["query_params"])
        user_agent == Lower(request["user_agent"].v)
    IN  << [sigs |-> suspicious_patterns.sql_injection_keywords,
            text |-> combined_text, weight |-> 3,
            label |-> <<"S","Q","L"," ","i","n","j","e","c","t","i","o","n"," ","p","a","t","t","e","r","n"," ","d","e","t","e","c","t","e","d",":"," ">>],
           [sigs |-> suspicious_patterns.xss_patterns,
            text |-> combined_text, weight |-> 3,
            label |-> <<"X","S","S"," ","p","a","t","t","e","r","n"," ","d","e","t","e","c","t","e","d",":"," ">>],
           [sigs |-> suspicious_patterns.path_traversal,
            text |-> combined_text, weight |-> 4,
            label |-> <<"P","a","t","h"," ","t","r","a","v","e","r","s","a","l"," ","p","a","t","t","e","r","n"," ","d","e","t","e","c","t","e","d",":"," ">>],
           [sigs |-> suspicious_patterns.suspicious_user_agents,
            text |-> user_agent, weight |-> 5,
            label |-> <<"S","u","s","p","i","c","i","o","u","s"," ","u","s","e","r"," ","a","g","e","n","t"," ","d","e","t","e","c","t","e","d",":"," ">>],
           [sigs |-> suspicious_patterns.admin_paths,
            text |-> path, weight |-> 2,
            label |-> <<"A","d","m","i","n"," ","p","a","t","h"," ","a","c","c","e","s","s"," ","d","e","t","e","c","t","e","d",":"," ">>] >>

\* the number of distinct signatures of a category that occur in its text
Occurring(category) ==
    Cardinality({i \in 1..Len(category.sigs) :
                    Contains(category.text, category.sigs[i])})

\* the weighted count of the claim, in tenths
WeightedCount(categories) ==
    SeqSum([c \in 1..Len(categories) |->
                categories[c].weight * Occurring(categories[c])])

MatchCount(categories) ==
    SeqSum([c \in 1..Len(categories) |-> Occurring(categories[c])])

\* reason names a signature of category that occurs in the category's text
ReasonOf(reason, category) ==
    \E i \in 1..Len(category.sigs) :
        /\ reason = category.label \o category.sigs[i]
        /\ Contains(category.text, category.sigs[i])

\* the reasons are one per matched signature: each names an occurring
\* signature, no two are the same, there are as many as signatures matched,
\* and they follow the order of the categories
OnePerMatch(reasons, categories) ==
    /\ Len(reasons) = MatchCount(categories)
    /\ \A k \in 1..Len(reasons) :
            \E c \in 1..Len(categories) : ReasonOf(reasons[k], categories[c])
    /\ \A k \in 1..Len(reasons) : \A l \in 1..Len(reasons) :
            (k < l) =>
                /\ reasons[k] # reasons[l]
                /\ \A c \in 1..Len(categories) : \A e \in 1..Len(categories) :
                        (ReasonOf(reasons[k], categories[c])
                            /\ ReasonOf(reasons[l], categories[e])) => c <= e

Min(a, b) == IF a <= b THEN a ELSE b

\* C22: the pattern detector's score is min(1, 0.3*s + 0.3*x + 0.4*t +
\* 0.5*u + 0.2*a) for the numbers of distinct SQL-injection, XSS and
\* path-traversal signatures in the case-folded path plus query, of
\* attack-tool signatures in the user agent and of admin-path signatures in
\* the path (to the rounding of the float additions), and the reasons hold
\* one entry per matched signature, in that order of the categories, made of
\* the category's text and the signature.
C22_PatternScoreCountsSignatures ==
    \A t \in Results :
        /\ FRound3(ScoreOf(t, "pattern_analysis"))
                = FLit(Min(10, WeightedCount(Categories(tasks[t].request))))
        /\ FLe(ScoreOf(t, "pattern_analysis"), FOne)
        /\ OnePerMatch(
                tasks[t].result.detailed_analysis["pattern_analysis"].reasons,
                Categories(tasks[t].request))

\* signatures that occur twice each count once, and the weights of the
\* matches add up to more than 1
C22_Witness ==
    \E t \in Results :
        /\ tasks[t].request["path"] = PyStr(<<"/",".",".","/",".",".","/","e","t","c","/","p","a","s","s","w","d">>)
        /\ tasks[t].request["user_agent"] = PyStr(<<"S","Q","L","M","a","p"," ","n","i","k","t","o"," ","s","q","l","m","a","p">>)
        /\ WeightedCount(Categories(tasks[t].request)) = 18
        /\ ScoreOf(t, "pattern_analysis") = FOne

\* the suspicious ranges that hold the address
RangesOf(ip) ==
    IF ValidIP(ip)
    THEN {i \in 1..Len(SUSPICIOUS_RANGES) :
            InNetwork(Octets(ip), SUSPICIOUS_RANGES[i].net)}
    ELSE {}

\* the accumulated IP score of the claim, in tenths
IpTenths(ip) ==
    (IF ip \in blacklist_ips THEN 9 ELSE 0)
        - (IF ip \in whitelist_ips THEN 2 ELSE 0)
        + (IF ~ValidIP(ip) THEN 3
           ELSE (IF IsPrivate(Octets(ip)) THEN -1 ELSE 1)
                    + 5 * Cardinality(RangesOf(ip)))

\* the reasons of the rules that add one for the address
IpReasonCount(ip) ==
    (IF ip \in blacklist_ips THEN 1 ELSE 0)
        + (IF ip \in whitelist_ips THEN 1 ELSE 0)
        + (IF ~ValidIP(ip) THEN 1 ELSE 0)
        + Cardinality(RangesOf(ip))

RangeReason(ip, i) ==
    <<"I","P"," ">> \o ip \o <<" ","i","s"," ","i","n"," ","s","u","s","p","i","c","i","o","u","s"," ","r","a","n","g","e"," ">> \o SUSPICIOUS_RANGES[i].text

\* C23: for an empty IP the IP detector returns score 0.1 and the one
\* reason 'Missing IP address'; for any other the score is the sum of 0.9 if
\* blacklisted, -0.2 if whitelisted, 0.3 if unparsable, else -0.1 if private
\* or 0.1 if public plus 0.5 per suspicious range that holds it, bounded by
\* 1 from above only, with one reason naming the CIDR per such range.
C23_IpScoreByRules ==
    \A t \in Results :
        IF IpOf(t) = <<>>
        THEN /\ ScoreOf(t, "ip_analysis") = FLit(1)
             /\ tasks[t].result.detailed_analysis["ip_analysis"].reasons
                    = << <<"M","i","s","s","i","n","g"," ","I","P"," ","a","d","d","r","e","s","s">> >>
        ELSE /\ FRound3(ScoreOf(t, "ip_analysis"))
                    = FLit(Min(10, IpTenths(IpOf(t))))
             /\ Len(tasks[t].result.detailed_analysis["ip_analysis"].reasons)
                    = IpReasonCount(IpOf(t))
             /\ \A i \in RangesOf(IpOf(t)) :
                    \E k \in 1..IpReasonCount(IpOf(t)) :
                        tasks[t].result.detailed_analysis["ip_analysis"].reasons[k]
                            = RangeReason(IpOf(t), i)

\* a public address of a suspicious range that is not blacklisted: 0.1 + 0.5
\* and the reason naming 1.2.3.0/24
C23_Witness ==
    \E t \in Results :
        /\ IpOf(t) = <<"1",".","2",".","3",".","9">>
        /\ ScoreOf(t, "ip_analysis") = FLit(6)
        /\ tasks[t].result.detailed_analysis["ip_analysis"].reasons
                = << RangeReason(IpOf(t), 1) >>

\* the records whose response time, request size and status code are numbers
NumericRecord(request) ==
    /\ {"response_time", "request_size", "status_code"} \subseteq DOMAIN request
    /\ IsNum(request["response_time"])
    /\ IsNum(request["request_size"])
    /\ IsNum(request["status_code"])

\* the rules of the statistical detector that fire for a record, with their
\* weight in tenths
StatisticalRules(request) ==
    LET response_time == NumVal(request["response_time"])
        request_size == NumVal(request["request_size"])
        status_code == NumVal(request["status_code"])
    IN  << [fires |-> response_time > baseline_metrics.avg_response_time.n
                            + 3 * baseline_metrics.std_response_time.n,
            weight |-> 3],
           [fires |-> request_size > baseline_metrics.avg_request_size.n
                            + 3 * baseline_metrics.std_request_size.n,
            weight |-> 2],
           [fires |-> status_code >= 500, weight |-> 2],
           [fires |-> status_code \in {401, 403}, weight |-> 1] >>

RECURSIVE FiredWeight(_, _)
FiredWeight(rules, n) ==
    IF n = 0 THEN 0
    ELSE FiredWeight(rules, n - 1) + (IF rules[n].fires THEN rules[n].weight ELSE 0)

FiredCount(rules) == Cardinality({n \in 1..Len(rules) : rules[n].fires})

\* C24: the statistical detector's score is 0.3 for a response time
\* strictly above mean + 3 * std, plus 0.2 for a request size strictly above
\* its mean + 3 * std, plus 0.2 for a status code from 500 or 0.1 for 401 and
\* 403 (never both); a value equal to the threshold and every other status
\* code add nothing, and there is one reason per rule that fired.
C24_StatisticsScoreByRules ==
    \A t \in Results :
        NumericRecord(tasks[t].request) =>
            /\ ~baseline_metrics.std_response_time.nan
            /\ ~baseline_metrics.std_request_size.nan
            /\ FRound3(ScoreOf(t, "stats_analysis"))
                    = FLit(FiredWeight(StatisticalRules(tasks[t].request), 4))
            /\ Len(tasks[t].result.detailed_analysis["stats_analysis"].reasons)
                    = FiredCount(StatisticalRules(tasks[t].request))
            /\ ~(/\ StatisticalRules(tasks[t].request)[3].fires
                 /\ StatisticalRules(tasks[t].request)[4].fires)

\* a response time and a request size that equal mean + 3 * std of the
\* sample data add nothing, and the 403 adds its 0.1
C24_Witness ==
    \E t \in Results :
        /\ baseline_metrics.avg_response_time = Num(200)
        /\ baseline_metrics.std_response_time = Num(50)
        /\ baseline_metrics.avg_request_size = Num(1024)
        /\ baseline_metrics.std_request_size = Num(200)
        /\ NumericRecord(tasks[t].request)
        /\ tasks[t].request["response_time"] = PyFloat(350)
        /\ tasks[t].request["request_size"] = PyInt(1624)
        /\ tasks[t].request["status_code"] = PyInt(403)
        /\ ScoreOf(t, "stats_analysis") = FLit(1)
        /\ Len(tasks[t].result.detailed_analysis["stats_analysis"].reasons) = 1

OutsideBusinessHours == hour < 6 \/ hour > 22

\* the record is an unauthenticated call of a protected endpoint
Unauthenticated(request) ==
    /\ Contains(request["path"].v, <<"/","a","p","i","/">>)
    /\ request["user_id"] \in {PyNone, PyStr(<<>>)}
    /\ request["path"].v \notin {<<"/","a","p","i","/","a","u","t","h","/","l","o","g","i","n">>, <<"/","a","p","i","/","a","u","t","h","/","r","e","g","i","s","t","e","r">>}

\* C25: the behavioural score is 0.1 when the hour of the clock is before 6
\* or after 22, plus 0.2 when the path contains /api/, the record has no
\* user_id and the path is neither /api/auth/login nor /api/auth/register;
\* the two public endpoints and a record with a user_id never get the 0.2.
C25_BehaviorScoreByRules ==
    \A t \in Results :
        /\ FRound3(ScoreOf(t, "behavior_analysis"))
                = FLit((IF OutsideBusinessHours THEN 1 ELSE 0)
                        + (IF Unauthenticated(tasks[t].request) THEN 2 ELSE 0))
        /\ Len(tasks[t].result.detailed_analysis["behavior_analysis"].reasons)
                = (IF OutsideBusinessHours THEN 1 ELSE 0)
                        + (IF Unauthenticated(tasks[t].request) THEN 1 ELSE 0)

\* the login endpoint without a user at 22 o'clock: both rules stay silent
C25_Witness ==
    \E t \in Results :
        /\ hour = 22
        /\ tasks[t].request["path"] = PyStr(<<"/","a","p","i","/","a","u","t","h","/","l","o","g","i","n">>)
        /\ tasks[t].request["user_id"] = PyNone
        /\ ScoreOf(t, "behavior_analysis") = FZero
        /\ tasks[t].result.detailed_analysis["behavior_analysis"].reasons = <<>>

\* the confidence label the claim gives a total and a number of reasons
ExpectedConfidence(total, count) ==
    IF FGt(total, FLit(7)) /\ count >= 3 THEN "High"
    ELSE IF FGt(total, FLit(4)) /\ count >= 2 THEN "Medium"
    ELSE "Low"

\* score / total * 100, or 0 when the total is 0
ExpectedPercentage(score, total) ==
    IF total = FZero
    THEN [zero |-> TRUE, num |-> FZero, den |-> FZero]
    ELSE [zero |-> FALSE, num |-> score, den |-> total]

Breakdown(t) == tasks[t].result.reasoning.analysis_breakdown

\* C26: the confidence is High iff the total is above 0.7 with at least 3
\* reasons, else Medium iff it is above 0.4 with at least 2, else Low; the
\* percentage of each detector is its score / total * 100, and 0 for every
\* detector when the total is 0.
C26_ConfidenceAndPercentages ==
    \A t \in Results :
        /\ tasks[t].result.reasoning.confidence
                = ExpectedConfidence(TotalOf(t),
                                     Len(tasks[t].result.anomaly_reasons))
        /\ \A k \in DOMAIN Breakdown(t) :
                Breakdown(t)[k].percentage
                    = ExpectedPercentage(ScoreOf(t, k), TotalOf(t))

\* the blocks of recommendations of the score bands
BAND_BLOCKS ==
    [critical |-> { <<"I","M","M","E","D","I","A","T","E"," ","A","C","T","I","O","N",":"," ","B","l","o","c","k"," ","t","h","i","s"," ","I","P"," ","a","d","d","r","e","s","s">>,
                    <<"R","e","v","i","e","w"," ","a","n","d"," ","s","t","r","e","n","g","t","h","e","n"," ","a","u","t","h","e","n","t","i","c","a","t","i","o","n"," ","m","e","c","h","a","n","i","s","m","s">>,
                    <<"I","m","p","l","e","m","e","n","t"," ","a","d","d","i","t","i","o","n","a","l"," ","m","o","n","i","t","o","r","i","n","g"," ","f","o","r"," ","t","h","i","s"," ","r","e","q","u","e","s","t"," ","p","a","t","t","e","r","n">> },
     high |-> { <<"I","n","c","r","e","a","s","e"," ","m","o","n","i","t","o","r","i","n","g"," ","f","o","r"," ","t","h","i","s"," ","I","P"," ","a","d","d","r","e","s","s">>,
                <<"C","o","n","s","i","d","e","r"," ","i","m","p","l","e","m","e","n","t","i","n","g"," ","C","A","P","T","C","H","A"," ","f","o","r"," ","s","u","s","p","i","c","i","o","u","s"," ","r","e","q","u","e","s","t","s">>,
                <<"R","e","v","i","e","w"," ","a","c","c","e","s","s"," ","l","o","g","s"," ","f","o","r"," ","s","i","m","i","l","a","r"," ","p","a","t","t","e","r","n","s">> },
     medium |-> { <<"M","o","n","i","t","o","r"," ","t","h","i","s"," ","r","e","q","u","e","s","t"," ","p","a","t","t","e","r","n">>,
                  <<"C","o","n","s","i","d","e","r"," ","r","a","t","e"," ","l","i","m","i","t","i","n","g"," ","f","o","r"," ","t","h","i","s"," ","I","P">>,
                  <<"R","e","v","i","e","w"," ","s","e","c","u","r","i","t","y"," ","p","o","l","i","c","i","e","s">> },
     low |-> {}]

\* the band of a total by the thresholds of the claim
BandOf(total) ==
    IF FGe(total, FLit(8)) THEN "critical"
    ELSE IF FGe(total, FLit(6)) THEN "high"
    ELSE IF FGe(total, FLit(4)) THEN "medium"
    ELSE "low"

Recommended(t) ==
    {tasks[t].result.recommendations[i] :
        i \in 1..Len(tasks[t].result.recommendations)}

\* the band blocks are those of the total's band and of the risk level
BandAgrees(t) ==
    /\ BandOf(TotalOf(t)) = tasks[t].result.risk_level
    /\ \A band \in DOMAIN BAND_BLOCKS :
            IF band = BandOf(TotalOf(t))
            THEN BAND_BLOCKS[band] \subseteq Recommended(t)
            ELSE BAND_BLOCKS[band] \cap Recommended(t) = {}

\* some reason of the result reports a match of the c-th category
Reports(t, c) ==
    \E k \in 1..Len(tasks[t].result.anomaly_reasons) :
        ReasonOf(tasks[t].result.anomaly_reasons[k],
                 Categories(tasks[t].request)[c])

\* C27: the recommendations hold exactly the block of the total's band
\* (block-IP from 0.8, monitoring/CAPTCHA from 0.6, rate-limit/monitor from
\* 0.4, none below), which is the band of risk_level; the
\* parameterized-queries item is there exactly when a reason reports an SQL
\* injection match and the output-encoding item exactly when a reason
\* reports an XSS match.
C27_RecommendationsByBandAndMatch ==
    \A t \in Results :
        /\ BandAgrees(t)
        /\ (<<"I","m","p","l","e","m","e","n","t"," ","p","a","r","a","m","e","t","e","r","i","z","e","d"," ","q","u","e","r","i","e","s"," ","a","n","d"," ","i","n","p","u","t"," ","v","a","l","i","d","a","t","i","o","n">>
                \in Recommended(t)) <=> Reports(t, 1)
        /\ (<<"I","m","p","l","e","m","e","n","t"," ","o","u","t","p","u","t"," ","e","n","c","o","d","i","n","g"," ","a","n","d"," ","C","S","P"," ","h","e","a","d","e","r","s">>
                \in Recommended(t)) <=> Reports(t, 2)

\* the results that were returned, one by one and in batches
AnalysisResults ==
    {tasks[t].result : t \in Results}
        \cup UNION {{tasks[t].result.results[i] :
                        i \in 1..Len(tasks[t].result.results)} :
                    t \in {b \in Batched : tasks[b].outcome = "returned"}}

\* C28: in every result a risk level of high or critical implies
\* is_anomaly, and is_anomaly implies a risk level other than low; so every
\* batch summary has high_risk_requests <= anomalous_requests <=
\* total_requests.
C28_HighRiskIsAnomalous ==
    /\ \A r \in AnalysisResults :
            /\ r.risk_level \in {"high", "critical"} => r.is_anomaly
            /\ r.is_anomaly => r.risk_level # "low"
    /\ \A t \in Batched :
            tasks[t].outcome = "returned" =>
                /\ tasks[t].result.summary.high_risk_requests
                        <= tasks[t].result.summary.anomalous_requests
                /\ tasks[t].result.summary.anomalous_requests
                        <= tasks[t].result.summary.total_requests

\* a batch of a critical record, an anomaly of medium risk (a total of
\* 0.5999999999999999) and a harmless record
C28_Witness ==
    \E t \in Batched :
        /\ tasks[t].outcome = "returned"
        /\ tasks[t].result.summary.total_requests = 3
        /\ tasks[t].result.summary.anomalous_requests = 2
        /\ tasks[t].result.summary.high_risk_requests = 1
        /\ \E i \in 1..3 :
                /\ tasks[t].result.results[i].risk_level = "medium"
                /\ tasks[t].result.results[i].is_anomaly
        /\ \E i \in 1..3 : tasks[t].result.results[i].risk_level = "low"

\* C29: when the pattern detector reports a match of an attack-tool user
\* agent, the recommendations of the result include 'Block known attack tool
\* user agents'.
C29_AttackToolAgentBlocked ==
    \A t \in Results :
        Reports(t, 4) =>
            <<"B","l","o","c","k"," ","k","n","o","w","n"," ","a","t","t","a","c","k"," ","t","o","o","l"," ","u","s","e","r"," ","a","g","e","n","t","s">> \in Recommended(t)

\* C30: on a trained engine a record without a timestamp is scored by the
\* outlier model: the ML detector returns 0.4 when the model flags it and 0
\* otherwise, never the 0.1 of the failure fallback.
C30_UntimedRecordIsScored ==
    \A t \in Results :
        (/\ "timestamp" \notin DOMAIN tasks[t].request
         /\ isolation_forest.state # "None") =>
            /\ ScoreOf(t, "ml_analysis") \in {FZero, FLit(4)}
            /\ \A k \in 1..Len(tasks[t].result.detailed_analysis["ml_analysis"].reasons) :
                    tasks[t].result.detailed_analysis["ml_analysis"].reasons[k]
                        # <<"M","L"," ","a","n","a","l","y","s","i","s"," ","f","a","i","l","e","d"," ","-"," ","u","s","i","n","g"," ","f","a","l","l","b","a","c","k"," ","d","e","t","e","c","t","i","o","n">>
=============================================================================
